---- MODULE Spec2Model ----
(***************************************************************************)
(* Model of mcp-server-amazon: the ProfileManager session state            *)
(* (profileManager.ts), the confirmation gate and tool handlers            *)
(* (index.ts) and the browser session lifecycle (utils.ts, cart.ts,        *)
(* orders.ts).                                                             *)
(*                                                                         *)
(* Node runs one handler at a time, but a handler gives up control at      *)
(* every await.  A synchronous ProfileManager method is therefore one      *)
(* atomic action; an async tool handler is one action per stretch of code  *)
(* between two awaits, and the stretches of different invocations          *)
(* interleave freely.                                                      *)
(***************************************************************************)
EXTENDS Naturals, Sequences, FiniteSets, Bags, TLC

VARIABLES
    files,             \* profiles/<name>.json : name -> file content
    legacy,            \* amazonCookies.json (legacy single-profile file)
    currentProfile,    \* ProfileManager.currentProfile
    currentCookies,    \* ProfileManager.currentCookies
    sessionConfirmed,  \* ProfileManager.sessionConfirmed
    useMocks,          \* config USE_MOCKS
    exportLive,        \* config EXPORT_LIVE_SCRAPING_FOR_MOCKS
    amazon,            \* the site as a browser session finds it
    mocks,             \* mocks/getCartContent.html, mocks/getOrdersHistory.html
    tasks,             \* tool invocations in flight: a bag of tasks
    last,              \* history: the most recent call and what it returned
    standing           \* history: a confirmation succeeded and no switch since

vars == <<files, legacy, currentProfile, currentCookies, sessionConfirmed,
          useMocks, exportLive, amazon, mocks, tasks, last, standing>>

session == <<currentProfile, currentCookies, sessionConfirmed>>

\* Number of tool invocations that may be in flight at the same time.
MaxTasks == 1

\* Largest number of items in a cart.
MaxItems == 2

(***************************************************************************)
(* Strings the code inspects character by character are sequences here.    *)
(* A domain is a sequence of tokens chosen so that the substring "amazon", *)
(* a leading "." and a leading "www." are each exactly one token.          *)
(***************************************************************************)
DomCom == <<".", "amazon", ".com">>
DomUk == <<".", "amazon", ".co.uk">>
DomWww == <<"www.", "amazon", ".com">>
DomOther == <<".", "example", ".org">>
DefaultDomain == <<"amazon", ".com">>
NoDomain == <<>>          \* null / undefined / "" (all falsy in the code)

Cookie(n, v, d, ss) == [name |-> n, value |-> v, domain |-> d, sameSite |-> ss]

PersonalCookies ==
    << Cookie("session-id", "p1", DomCom, "no_restriction"),
       Cookie("ubid-main", "p2", DomCom, "Lax") >>
WorkCookies == << Cookie("session-id", "w1", DomUk, "unspecified") >>
LegacyCookies == << Cookie("session-id", "l1", DomCom, "null") >>
NewCookies == << Cookie("session-id", "n1", DomUk, "Strict") >>

\* Cookie sequences that try the same-site and the domain handling.
MixedCookies ==
    << Cookie("session-id", "m1", DomCom, "None"),
       Cookie("session-token", "m2", DomCom, "null"),
       Cookie("ubid-main", "m3", DomCom, "absent"),
       Cookie("x-main", "m4", DomCom, "lax") >>
WwwFirst ==
    << Cookie("csm-hit", "f1", DomWww, "Lax"),
       Cookie("session-id", "f2", DomCom, "Lax") >>
DotFirst ==
    << Cookie("session-id", "d1", DomUk, "Lax"),
       Cookie("csm-hit", "d2", DomWww, "Lax") >>
NoAmazon == << Cookie("sid", "o1", DomOther, "Strict") >>
HandMade == << Cookie("session-id", "h1", NoDomain, "absent") >>

\* A file (or a payload) is what JSON.parse makes of its text.
Absent == [kind |-> "absent", cookies |-> <<>>]
Corrupt == [kind |-> "corrupt", cookies |-> <<>>]      \* JSON.parse throws
NonArray == [kind |-> "nonarray", cookies |-> <<>>]    \* parses, not an array
ArrayOf(cs) == [kind |-> "array", cookies |-> cs]

ProfileNames == {"personal", "work"}
NameArgs == ProfileNames \cup {"Bad Name", ""}
DirOrder == <<"personal", "work">>      \* fs.readdirSync order

Chars(name) ==
    CASE name = "personal" -> <<"p", "e", "r", "s", "o", "n", "a", "l">>
      [] name = "work" -> <<"w", "o", "r", "k">>
      [] name = "Bad Name" -> <<"B", "a", "d", " ", "N", "a", "m", "e">>
      [] name = "" -> <<>>

AllowedChars ==
    {"a", "b", "c", "d", "e", "f", "g", "h", "i", "j", "k", "l", "m", "n",
     "o", "p", "q", "r", "s", "t", "u", "v", "w", "x", "y", "z", "0", "1",
     "2", "3", "4", "5", "6", "7", "8", "9", "-"}

\* /^[a-z0-9-]+$/.test(name)
isValidProfileName(name) ==
    /\ Len(Chars(name)) >= 1
    /\ \A i \in 1..Len(Chars(name)) : Chars(name)[i] \in AllowedChars

\* normalizeSameSite without the "no_restriction" alias
normalizeSameSite_ForgetsAlias(ss) ==
    IF ss \in {"Strict", "Lax", "None"} THEN ss
    ELSE "absent"

\* sameSite as the code reads it: "null" stands for a JSON null, "absent"
\* for a cookie without the field, the result "absent" for undefined.
normalizeSameSite(ss) ==
    IF ss \in {"Strict", "Lax", "None"} THEN ss
    ELSE IF ss = "no_restriction" THEN "None"
    ELSE "absent"

\* normalizeCookies, dropping the cookies whose sameSite it does not know
normalizeCookies_DropsUnknownSameSite(cs) ==
    LET kept == SelectSeq(cs, LAMBDA c :
                    c.sameSite \in {"Strict", "Lax", "None", "no_restriction"})
    IN  [i \in 1..Len(kept) |->
            [kept[i] EXCEPT !.sameSite = normalizeSameSite(kept[i].sameSite)]]

normalizeCookies(cs) ==
    [i \in 1..Len(cs) |-> [cs[i] EXCEPT !.sameSite = normalizeSameSite(cs[i].sameSite)]]

IncludesAmazon(d) == \E i \in 1..Len(d) : d[i] = "amazon"

MinOf(S) == CHOOSE x \in S : \A y \in S : x <= y

\* cookies.find(c => c.domain && c.domain.includes('amazon')), then strip "."
extractDomain(cs) ==
    LET hits == {i \in 1..Len(cs) : IncludesAmazon(cs[i].domain)}
    IN  IF hits = {} THEN NoDomain
        ELSE LET d == cs[MinOf(hits)].domain
             IN  IF d[1] = "." THEN Tail(d) ELSE d

\* getAmazonDomain without its fallback
getAmazonDomain_NoDefault(cs) ==
    IF Len(cs) = 0 THEN DefaultDomain
    ELSE extractDomain(cs)

getAmazonDomain(cs) ==
    IF Len(cs) = 0 THEN DefaultDomain
    ELSE IF extractDomain(cs) # NoDomain THEN extractDomain(cs)
    ELSE DefaultDomain

Exists(content) == content.kind # "absent"

\* JSON.parse(readFileSync(path)) followed by normalizeCookies does not throw
Loadable(content) == content.kind = "array"

Session(p, c, f) == [profile |-> p, cookies |-> c, confirmed |-> f]

\* loadProfile, assigning the name before the file has been parsed
loadProfile_NameFirst(fs, leg, s, name) ==
    IF name \in DOMAIN fs /\ Exists(fs[name])
    THEN IF Loadable(fs[name])
         THEN [ok |-> TRUE, from |-> "profile",
               s |-> [s EXCEPT !.cookies = normalizeCookies(fs[name].cookies),
                               !.profile = name]]
         ELSE [ok |-> FALSE, from |-> "profile", s |-> [s EXCEPT !.profile = name]]
    ELSE IF name = "personal" /\ Exists(leg)
    THEN IF Loadable(leg)
         THEN [ok |-> TRUE, from |-> "legacy",
               s |-> [s EXCEPT !.cookies = normalizeCookies(leg.cookies),
                               !.profile = name]]
         ELSE [ok |-> FALSE, from |-> "legacy", s |-> [s EXCEPT !.profile = name]]
    ELSE [ok |-> FALSE, from |-> "none", s |-> s]

\* loadProfile, going to the legacy file whenever the profile's own file
\* gives no cookies
loadProfile_LegacyForAll(fs, leg, s, name) ==
    IF name \in DOMAIN fs /\ Loadable(fs[name])
    THEN [ok |-> TRUE, from |-> "profile",
          s |-> [s EXCEPT !.cookies = normalizeCookies(fs[name].cookies),
                          !.profile = name]]
    ELSE IF Exists(leg)
    THEN IF Loadable(leg)
         THEN [ok |-> TRUE, from |-> "legacy",
               s |-> [s EXCEPT !.cookies = normalizeCookies(leg.cookies),
                               !.profile = name]]
         ELSE [ok |-> FALSE, from |-> "legacy", s |-> s]
    ELSE [ok |-> FALSE, from |-> "none", s |-> s]

(***************************************************************************)
(* loadProfile: the profile's own file first, then the legacy file for     *)
(* "personal" only.  Cookies and name are assigned together, and only      *)
(* after the parse and the normalization have both succeeded.  from is     *)
(* the file it read: the profile's own, the legacy one, or none.           *)
(***************************************************************************)
loadProfile(fs, leg, s, name) ==
    IF name \in DOMAIN fs /\ Exists(fs[name])
    THEN IF Loadable(fs[name])
         THEN [ok |-> TRUE, from |-> "profile",
               s |-> [s EXCEPT !.cookies = normalizeCookies(fs[name].cookies),
                               !.profile = name]]
         ELSE [ok |-> FALSE, from |-> "profile", s |-> s]
    ELSE IF name = "personal" /\ Exists(leg)
    THEN IF Loadable(leg)
         THEN [ok |-> TRUE, from |-> "legacy",
               s |-> [s EXCEPT !.cookies = normalizeCookies(leg.cookies),
                               !.profile = name]]
         ELSE [ok |-> FALSE, from |-> "legacy", s |-> s]
    ELSE [ok |-> FALSE, from |-> "none", s |-> s]

Ret(ok, msg, profile) == [success |-> ok, msg |-> msg, profile |-> profile]

\* switchProfile, clearing the flag only when the profile actually changes
switchProfile_KeepsFlagOnSameProfile(fs, leg, s, name) ==
    IF ~isValidProfileName(name)
    THEN [s |-> s, ret |-> Ret(FALSE, "invalid_name", s.profile)]
    ELSE IF ~(name \in DOMAIN fs /\ Exists(fs[name]))
    THEN [s |-> s, ret |-> Ret(FALSE, "not_found", s.profile)]
    ELSE LET ld == loadProfile(fs, leg, s, name)
         IN  IF ld.ok
             THEN [s |-> [ld.s EXCEPT !.confirmed =
                              IF name = s.profile THEN s.confirmed ELSE FALSE],
                   ret |-> Ret(TRUE, "switched", ld.s.profile)]
             ELSE [s |-> ld.s, ret |-> Ret(FALSE, "load_failed", ld.s.profile)]

\* switchProfile, clearing the flag before it knows the profile exists
switchProfile_ResetsOnFailure(fs, leg, s, name) ==
    IF ~isValidProfileName(name)
    THEN [s |-> s, ret |-> Ret(FALSE, "invalid_name", s.profile)]
    ELSE IF ~(name \in DOMAIN fs /\ Exists(fs[name]))
    THEN [s |-> [s EXCEPT !.confirmed = FALSE],
          ret |-> Ret(FALSE, "not_found", s.profile)]
    ELSE LET ld == loadProfile(fs, leg, s, name)
         IN  IF ld.ok
             THEN [s |-> [ld.s EXCEPT !.confirmed = FALSE],
                   ret |-> Ret(TRUE, "switched", ld.s.profile)]
             ELSE [s |-> ld.s, ret |-> Ret(FALSE, "load_failed", ld.s.profile)]

switchProfile(fs, leg, s, name) ==
    IF ~isValidProfileName(name)
    THEN [s |-> s, ret |-> Ret(FALSE, "invalid_name", s.profile)]
    ELSE IF ~(name \in DOMAIN fs /\ Exists(fs[name]))
    THEN [s |-> s, ret |-> Ret(FALSE, "not_found", s.profile)]
    ELSE LET ld == loadProfile(fs, leg, s, name)
         IN  IF ld.ok
             THEN [s |-> [ld.s EXCEPT !.confirmed = FALSE],
                   ret |-> Ret(TRUE, "switched", ld.s.profile)]
             ELSE [s |-> ld.s, ret |-> Ret(FALSE, "load_failed", ld.s.profile)]

\* confirmSession, setting the flag before the switch it asks for
confirmSession_ConfirmsFirst(fs, leg, s, name) ==
    LET s0 == [s EXCEPT !.confirmed = TRUE]
        sw == switchProfile(fs, leg, s0, name)
    IN  IF name # "" /\ name # s.profile /\ ~sw.ret.success
        THEN sw
        ELSE LET s1 == IF name # "" /\ name # s.profile THEN sw.s ELSE s
             IN  [s |-> [s1 EXCEPT !.confirmed = TRUE],
                  ret |-> Ret(TRUE, "confirmed", s1.profile)]

\* confirmSession, switching whenever a name is given
confirmSession_AlwaysSwitches(fs, leg, s, name) ==
    LET sw == switchProfile(fs, leg, s, name)
    IN  IF name # "" /\ ~sw.ret.success
        THEN sw
        ELSE LET s1 == IF name # "" THEN sw.s ELSE s
             IN  [s |-> [s1 EXCEPT !.confirmed = TRUE],
                  ret |-> Ret(TRUE, "confirmed", s1.profile)]

\* confirmSession, ignoring the result of the switch
confirmSession_IgnoresSwitchResult(fs, leg, s, name) ==
    LET sw == switchProfile(fs, leg, s, name)
        s1 == IF name # "" /\ name # s.profile THEN sw.s ELSE s
    IN  [s |-> [s1 EXCEPT !.confirmed = TRUE],
         ret |-> Ret(TRUE, "confirmed", s1.profile)]

\* profileName undefined and "" are both falsy: neither asks for a switch
confirmSession(fs, leg, s, name) ==
    LET sw == switchProfile(fs, leg, s, name)
    IN  IF name # "" /\ name # s.profile /\ ~sw.ret.success
        THEN sw
        ELSE LET s1 == IF name # "" /\ name # s.profile THEN sw.s ELSE s
             IN  [s |-> [s1 EXCEPT !.confirmed = TRUE],
                  ret |-> Ret(TRUE, "confirmed", s1.profile)]

Payloads ==
    { [kind |-> "unparseable", cookies |-> <<>>],
      [kind |-> "nonarray", cookies |-> <<>>],
      ArrayOf(<<>>),
      ArrayOf(<< Cookie("session-id", "", DomUk, "Lax") >>),
      ArrayOf(NewCookies) }

\* Payloads that try the cookie handling, with one of each kind of
\* rejected payload.
CookiePayloads ==
    Payloads \cup
    { ArrayOf(<< Cookie("session-id", "v", NoDomain, "Lax") >>),
      ArrayOf(MixedCookies), ArrayOf(WwwFirst), ArrayOf(DotFirst),
      ArrayOf(NoAmazon) }

WriteOutcomes == {"ok", "eopen", "ewrite"}

HasRequired(c) == c.name # "" /\ c.value # "" /\ c.domain # NoDomain

\* saveProfile without the test for an empty array
saveProfile_NoEmptyCheck(fs, name, payload, io) ==
    IF ~isValidProfileName(name)
    THEN [fs |-> fs, ret |-> Ret(FALSE, "invalid_name", name)]
    ELSE IF payload.kind = "unparseable"
    THEN [fs |-> fs, ret |-> Ret(FALSE, "bad_json", name)]
    ELSE IF payload.kind # "array"
    THEN [fs |-> fs, ret |-> Ret(FALSE, "not_array", name)]
    ELSE IF \E i \in 1..Len(payload.cookies) : ~HasRequired(payload.cookies[i])
    THEN [fs |-> fs, ret |-> Ret(FALSE, "missing_field", name)]
    ELSE IF io = "ok"
    THEN [fs |-> [fs EXCEPT ![name] = ArrayOf(payload.cookies)],
          ret |-> Ret(TRUE, "saved", name)]
    ELSE IF io = "eopen"
    THEN [fs |-> fs, ret |-> Ret(FALSE, "write_failed", name)]
    ELSE [fs |-> [fs EXCEPT ![name] = Corrupt],
          ret |-> Ret(FALSE, "write_failed", name)]

saveProfile(fs, name, payload, io) ==
    IF ~isValidProfileName(name)
    THEN [fs |-> fs, ret |-> Ret(FALSE, "invalid_name", name)]
    ELSE IF payload.kind = "unparseable"
    THEN [fs |-> fs, ret |-> Ret(FALSE, "bad_json", name)]
    ELSE IF payload.kind # "array"
    THEN [fs |-> fs, ret |-> Ret(FALSE, "not_array", name)]
    ELSE IF Len(payload.cookies) = 0
    THEN [fs |-> fs, ret |-> Ret(FALSE, "empty_array", name)]
    ELSE IF \E i \in 1..Len(payload.cookies) : ~HasRequired(payload.cookies[i])
    THEN [fs |-> fs, ret |-> Ret(FALSE, "missing_field", name)]
    ELSE IF io = "ok"
    THEN [fs |-> [fs EXCEPT ![name] = ArrayOf(payload.cookies)],
          ret |-> Ret(TRUE, "saved", name)]
    ELSE IF io = "eopen"
    THEN [fs |-> fs, ret |-> Ret(FALSE, "write_failed", name)]
    ELSE [fs |-> [fs EXCEPT ![name] = Corrupt],
          ret |-> Ret(FALSE, "write_failed", name)]

\* The constructor: migrate the legacy file, then load "personal".
initializeProfiles(fs, leg, migrates) ==
    LET fs1 == IF Exists(leg) /\ ~Exists(fs["personal"]) /\ migrates
               THEN [fs EXCEPT !["personal"] = leg]
               ELSE fs
    IN  [fs |-> fs1,
         s |-> loadProfile(fs1, leg, Session("personal", <<>>, FALSE), "personal").s]

ProfileInfo(name, count, domain) ==
    [name |-> name, cookieCount |-> count, domain |-> domain]

\* One entry of listProfiles: a file whose parse or domain extraction
\* throws is pushed with count 0 and a null domain.
listEntry(name, content) ==
    IF content.kind = "array"
    THEN ProfileInfo(name, Len(content.cookies), extractDomain(content.cookies))
    ELSE ProfileInfo(name, 0, NoDomain)

IsListed(fs, name) == Exists(fs[name])

RECURSIVE listFrom(_, _)
listFrom(fs, names) ==
    IF names = <<>> THEN <<>>
    ELSE IF IsListed(fs, Head(names))
    THEN <<listEntry(Head(names), fs[Head(names)])>> \o listFrom(fs, Tail(names))
    ELSE listFrom(fs, Tail(names))

\* listProfiles, leaving out the files it cannot parse
listProfiles_SkipsUnparsed(fs) ==
    SelectSeq(listFrom(fs, DirOrder), LAMBDA e : fs[e.name].kind = "array")

listProfiles(fs) == listFrom(fs, DirOrder)

PromptOption(name, current) ==
    [label |-> IF name = current THEN <<name, " (current)">> ELSE <<name>>,
     value |-> name,
     description |-> IF name = current
                     THEN "Continue with the currently active profile"
                     ELSE "Switch to the profile"]

Prompt(current, profiles) ==
    [type |-> "AMAZON_PROFILE_CONFIRMATION_REQUIRED",
     currentProfile |-> current,
     availableProfiles |-> [i \in 1..Len(profiles) |-> profiles[i].name],
     question |-> "Which Amazon account should be used for this operation?",
     options |-> [i \in 1..Len(profiles) |->
                     PromptOption(profiles[i].name, current)]]

\* getConfirmationPrompt, marking the first option as the current one
getConfirmationPrompt_FirstIsCurrent(fs, current) ==
    LET profiles == listProfiles(fs)
    IN  [Prompt(current, profiles) EXCEPT !.options =
            [i \in 1..Len(profiles) |->
                PromptOption(profiles[i].name,
                             IF i = 1 THEN profiles[i].name ELSE "")]]

getConfirmationPrompt(fs, current) == Prompt(current, listProfiles(fs))

\* profiles.map(p => p.name).join(', ')
Names(profiles) == [i \in 1..Len(profiles) |-> profiles[i].name]

\* the failure messages of switchProfile, the one for a missing profile
\* without the list of the profiles there are
Message_NoNames(fs, ret, name) ==
    CASE ret.msg = "invalid_name" ->
            <<"Invalid profile name ", name,
              ". Profile names must be lowercase alphanumeric with hyphens only.">>
      [] ret.msg = "not_found" ->
            <<"Profile ", name, " not found. Available profiles: ">>
      [] ret.msg = "load_failed" -> <<"Failed to load profile ", name>>
      [] OTHER -> <<>>

\* The message of a switchProfile that failed, by the step that failed;
\* for a missing profile it ends with the names listProfiles returns.
Message(fs, ret, name) ==
    CASE ret.msg = "invalid_name" ->
            <<"Invalid profile name ", name,
              ". Profile names must be lowercase alphanumeric with hyphens only.">>
      [] ret.msg = "not_found" ->
            <<"Profile ", name, " not found. Available profiles: ">>
                \o Names(listProfiles(fs))
      [] ret.msg = "load_failed" -> <<"Failed to load profile ", name>>
      [] OTHER -> <<>>

(***************************************************************************)
(* Texts (error messages, page texts) are sequences of tokens, chosen so   *)
(* that every phrase the code looks for or puts together is one token.     *)
(***************************************************************************)
Includes(text, phrase) == \E i \in 1..Len(text) : text[i] = phrase

NoError == <<>>
Failed == <<"browser call rejected">>     \* any error thrown by puppeteer
NotLoggedIn == <<"You need to be logged in to access this feature.">>

AddedToCart == <<"Added to cart">>
AddedToBasket == <<"1 item ", "Added to basket", " Basket subtotal">>
Unavailable == <<"Item temporarily unavailable">>
LowerCase == <<"added to cart">>

\* What #sw-atc-confirmation shows after the add-to-cart click, if it
\* shows up at all within the timeout.
Shown(text) == [appears |-> TRUE, text |-> text]
NeverShown == [appears |-> FALSE, text |-> <<>>]
Confirmations ==
    {NeverShown, Shown(AddedToCart), Shown(AddedToBasket), Shown(Unavailable),
     Shown(LowerCase), Shown(<<>>)}

(***************************************************************************)
(* The cart page.  #sc-active-cart is its text outside the item nodes      *)
(* (banner), its [data-asin] nodes and the number of delete controls       *)
(* (span[data-action="delete-active"]) on the page.                        *)
(***************************************************************************)
EmptyPhrase == "Your Amazon Cart is empty"

Node(title, price, quantity) ==
    [title |-> title, price |-> price, quantity |-> quantity]

Container(banner, nodes, buttons) ==
    [banner |-> banner, nodes |-> nodes, buttons |-> buttons]

Widget == Node("Widget", "$5.00", "2")
Gadget == Node("Gadget", "$7.50", "")
Untitled == Node("", "$1.00", "1")         \* a node without a title
Suggested == Node("Suggested", "", "")     \* a node without a price

EmptyCart == Container(<<EmptyPhrase>>, <<>>, 0)
EmptyWithNodes == Container(<<EmptyPhrase>>, <<Widget, Suggested>>, 0)

Fill(n) == [i \in 1..n |-> IF i % 2 = 1 THEN Widget ELSE Gadget]
CartOf(n) == Container(<<"Subtotal">>, Fill(n), n)

Carts ==
    {EmptyCart, EmptyWithNodes,
     Container(<<"Subtotal">>, <<Untitled, Widget, Suggested>>, 1)}
    \cup {CartOf(n) : n \in 1..MaxItems}

\* $cartContainer.text(): the text of the container and of all its nodes
RECURSIVE NodesText(_)
NodesText(nodes) ==
    IF nodes = <<>> THEN <<>>
    ELSE <<Head(nodes).title, Head(nodes).price>> \o NodesText(Tail(nodes))

ContainerText(c) == c.banner \o NodesText(c.nodes)

\* parseInt(quantityElement) || 1
Quantity(text) ==
    CASE text = "1" -> 1
      [] text = "2" -> 2
      [] OTHER -> 1         \* "", "0" and what parseInt makes NaN

CartItem(node) ==
    [title |-> node.title, price |-> node.price, quantity |-> Quantity(node.quantity)]

CartContent(isEmpty, items) == [isEmpty |-> isEmpty, items |-> items]

\* extractCartPageData looking at the nodes before the empty-cart phrase
extractCartPageData_ItemsFirst(c) ==
    LET kept == SelectSeq(c.nodes, LAMBDA n : n.title # "" /\ n.price # "")
    IN  IF Len(kept) > 0
        THEN CartContent(FALSE, [i \in 1..Len(kept) |-> CartItem(kept[i])])
        ELSE CartContent(Includes(ContainerText(c), EmptyPhrase), <<>>)

\* extractCartPageData: the empty-cart phrase first, then the nodes that
\* have a title and a price
extractCartPageData(c) ==
    IF Includes(ContainerText(c), EmptyPhrase)
    THEN CartContent(TRUE, <<>>)
    ELSE LET kept == SelectSeq(c.nodes, LAMBDA n : n.title # "" /\ n.price # "")
         IN  CartContent(FALSE, [i \in 1..Len(kept) |-> CartItem(kept[i])])

\* The orders page: its .order-card elements
Card(orderNumber, total, titles) ==
    [orderNumber |-> orderNumber, total |-> total, titles |-> titles]

NoOrders == <<>>
TwoOrders == <<Card("111-1", "$12.50", <<"Widget">>), Card("111-2", "$7.50", <<>>)>>

Order(card) ==
    [orderInfo |-> [orderNumber |-> card.orderNumber, total |-> card.total],
     items |-> [i \in 1..Len(card.titles) |-> [title |-> card.titles[i]]]]

\* getOrdersHistory: extractOrdersHistoryPageData mapped over the cards
extractOrders(cards) == [i \in 1..Len(cards) |-> Order(cards[i])]

\* A product page: its 'One-time purchase' option, its
\* #add-to-cart-button and its #attachSiNoCoverage control, each absent
\* (the wait for it times out), present, or stuck (it is found and the
\* click on it rejects).
Product(oneTime, button, coverage) ==
    [oneTime |-> oneTime, button |-> button, coverage |-> coverage]

PlainProduct == Product("absent", "present", "absent")

Products ==
    {Product(o, b, c) : o \in {"absent", "present", "stuck"},
                        b \in {"absent", "present", "stuck"},
                        c \in {"absent", "present", "stuck"}}

\* The site: the session-id values it takes for a signed-in session, how
\* it answers an add-to-cart click, the cart and orders pages it serves
\* to a signed-in session, and its product page.
SiteWith(valid, confirmation, cart, orders) ==
    [valid |-> valid, confirmation |-> confirmation, cart |-> cart,
     orders |-> orders, product |-> PlainProduct]

\* A site on which the account has an empty cart and no orders
Site(valid, confirmation) == SiteWith(valid, confirmation, EmptyCart, NoOrders)

\* The page a navigation lands on: the sign-in form unless one of the
\* cookies in the browser is a session the site knows.
PageFor(jar) ==
    IF \E i \in 1..Len(jar) : jar[i].value \in amazon.valid THEN "content"
    ELSE "login"

(***************************************************************************)
(* Tool invocations.  A handler that has reached its first await is a task *)
(* in flight; tasks holds them as a bag, since nothing in the program      *)
(* tells two invocations in the same position apart.                       *)
(***************************************************************************)
IdentityTools ==
    {"get-cart-content", "add-to-cart", "clear-cart", "get-orders-history",
     "perform-purchase"}
SnapshotTools == {"get-cart-content", "get-orders-history"}
BrowserTools == IdentityTools \ {"perform-purchase"}
PublicTools == {"search-products", "get-product-details"}

InFlight == BagToSet(tasks)

Replace(t, u) == tasks' = (tasks (-) SetToBag({t})) (+) SetToBag({u})
Remove(t) == tasks' = tasks (-) SetToBag({t})

\* What a call leaves in the history: the operation, its argument, what it
\* answered, and the profile and flag it found; out is the structured
\* answer of list-profiles (the entries) or of a gate (the prompt).
Call(op, arg, ok, msg) ==
    [op |-> op, arg |-> arg, ok |-> ok, msg |-> msg,
     preProfile |-> currentProfile, preConfirmed |-> sessionConfirmed,
     browser |-> "none", page |-> "none", text |-> <<>>, payload |-> Absent, out |-> <<>>, asin |-> <<>>]

\* `${itemsRemoved}`
Numeral(n) ==
    CASE n = 0 -> "0" [] n = 1 -> "1" [] n = 2 -> "2" [] n = 3 -> "3"
      [] n = 4 -> "4" [] n = 5 -> "5" [] n = 6 -> "6" [] n = 7 -> "7"
      [] n = 8 -> "8" [] n = 9 -> "9"

\* What clearCart returns: 'No items found in cart to remove' when the
\* first query finds no delete control, the count of clicks that resolved
\* otherwise.
ClearResult(seen, removed) ==
    [success |-> TRUE, itemsRemoved |-> removed,
     message |-> IF seen = 0 THEN <<"No items found in cart to remove">>
                 ELSE <<"Successfully cleared cart. Removed ", Numeral(removed),
                        " items.">>]

\* What an operation that has not thrown returns to its handler
Result(t) ==
    CASE t.tool = "get-cart-content" -> extractCartPageData(amazon.cart)
      [] t.tool = "get-orders-history" -> extractOrders(amazon.orders)
      [] t.tool = "clear-cart" -> ClearResult(t.seen, t.removed)
      [] t.tool = "add-to-cart" ->
            [success |-> TRUE, message |-> <<"successfully added to cart">>]

\* The handler's catch: error.message inside the tool's error text
HandlerError(err) == <<"An error occurred. Error: ">> \o err

\* `(Profile: ${profileManager.getCurrentProfile()})`, put together when
\* the handler answers
ProfileNote(profile) == <<"(Profile: ", profile, ")">>

\* A handler answered its caller: an error text if the operation threw
\* err, its result otherwise, with the note on the profile that is active
\* at that moment; with the page the operation had landed on and the
\* state in which it left the browser it had launched.
Return(t, err, browser) ==
    [op |-> "return", arg |-> t.tool, ok |-> err = NoError,
     msg |-> IF err = NoError THEN "ok" ELSE "error",
     preProfile |-> "none", preConfirmed |-> FALSE, browser |-> browser,
     page |-> t.page,
     text |-> IF err = NoError THEN ProfileNote(currentProfile)
              ELSE HandlerError(err),
     payload |-> Absent,
     out |-> IF err = NoError THEN <<Result(t)>> ELSE <<>>,
     asin |-> <<>>]

Step ==
    [op |-> "step", arg |-> "", ok |-> TRUE, msg |-> "",
     preProfile |-> "none", preConfirmed |-> FALSE, browser |-> "none",
     page |-> "none", text |-> <<>>, payload |-> Absent, out |-> <<>>, asin |-> <<>>]

\* standing follows the answers alone: a confirmation that succeeded sets
\* it, a switch-profile call that succeeded clears it.
Record(l) ==
    /\ last' = l
    /\ standing' = IF l.op = "confirmSession" /\ l.ok THEN TRUE
                   ELSE IF l.op = "switchProfile" /\ l.ok THEN FALSE
                   ELSE standing

\* requireSessionConfirmation, never asking
requireSessionConfirmation_NeverAsks(confirmed) ==
    [confirmed |-> TRUE, prompt |-> FALSE]

\* index.ts requireSessionConfirmation: the prompt unless confirmed
requireSessionConfirmation(confirmed) ==
    IF confirmed THEN [confirmed |-> TRUE, prompt |-> FALSE]
    ELSE [confirmed |-> FALSE, prompt |-> TRUE]

Install(s) ==
    /\ currentProfile' = s.profile
    /\ currentCookies' = s.cookies
    /\ sessionConfirmed' = s.confirmed

Now == Session(currentProfile, currentCookies, sessionConfirmed)

\* The synchronous head of getCartContent / addToCart / clearCart /
\* getOrdersHistory: the domain is resolved, then puppeteer.launch is
\* awaited.  gateProfile is a history field: the profile that was active
\* when the handler passed the gate; launches and gotos count the calls of
\* puppeteer.launch and page.goto the invocation has made.  clearCart's
\* locals are seen (deleteButtons.length), i and removed (itemsRemoved);
\* buttons is the number of delete controls on its page; trace is a
\* history field: what addToCart did on its page, in order.  held tells
\* which handles it holds: the number of items that had left the page
\* when it last queried the controls; stale is a history field: it has
\* clicked a handle queried before an item left the page.
NewTask(tool) ==
    [tool |-> tool, pc |-> "launch", domain |-> getAmazonDomain(currentCookies),
     browser |-> "none", cookies |-> <<>>, jar |-> <<>>, page |-> "none",
     err |-> NoError, gateProfile |-> currentProfile, launches |-> 1,
     gotos |-> 0, seen |-> 0, i |-> 0, removed |-> 0, buttons |-> 0,
     held |-> 0, stale |-> FALSE, trace |-> <<>>]

InitFiles(p0, w0) == [n \in ProfileNames |-> IF n = "personal" THEN p0 ELSE w0]

\* A stored snapshot: absent, or the markup captured from a page
NoSnapshot == [present |-> FALSE, content |-> <<>>]
Snapshot(content) == [present |-> TRUE, content |-> content]
\* The mocks directory: the two files read under USE_MOCKS, and whether a
\* new file can be written to it (the directory exists and takes writes)
Mocks(cart, orders, writable) ==
    [cart |-> cart, orders |-> orders, writable |-> writable]

\* The build: USE_MOCKS, EXPORT_LIVE_SCRAPING_FOR_MOCKS and the mocks
\* directory it runs with
InitBuild(mock, export, stored) ==
    /\ useMocks = mock
    /\ exportLive = export
    /\ mocks = stored

InitSession(fs0, l0, migrates) ==
    LET st == initializeProfiles(fs0, l0, migrates)
    IN  /\ files = st.fs
        /\ legacy = l0
        /\ currentProfile = st.s.profile
        /\ currentCookies = st.s.cookies
        /\ sessionConfirmed = st.s.confirmed
        /\ tasks = EmptyBag
        /\ last = [op |-> "init", arg |-> "", ok |-> TRUE, msg |-> "",
                   preProfile |-> "none", preConfirmed |-> FALSE,
                   browser |-> "none", page |-> "none", text |-> <<>>,
                   payload |-> Absent, out |-> <<>>, asin |-> <<>>]
        /\ standing = FALSE

\* The build as it is configured in the sources: live, capturing
InitWith(fs0, l0, migrates) ==
    /\ InitSession(fs0, l0, migrates)
    /\ InitBuild(FALSE, TRUE, Mocks(NoSnapshot, NoSnapshot, TRUE))

\* The whole system, started on a profiles directory that holds a valid
\* personal.json and no work.json yet.
Init ==
    /\ InitWith(InitFiles(ArrayOf(PersonalCookies), Absent), Absent, TRUE)
    /\ amazon = Site({"p1", "w1"}, Shown(AddedToCart))

\* One profile, confirmed and used against any site.
InitPages ==
    /\ InitWith(InitFiles(ArrayOf(PersonalCookies), Absent), Absent, TRUE)
    /\ amazon \in {Site(v, c) : v \in {{}, {"p1"}}, c \in Confirmations}

\* The profile manager alone, started on any profiles directory.
InitProfiles ==
    \E p0 \in {Absent, Corrupt, ArrayOf(PersonalCookies)},
       w0 \in {Absent, NonArray, ArrayOf(WorkCookies)},
       l0 \in {Absent, ArrayOf(LegacyCookies)},
       migrates \in BOOLEAN :
        /\ InitWith(InitFiles(p0, w0), l0, migrates)
        /\ amazon = Site({"p1", "w1"}, Shown(AddedToCart))

SwitchProfileCall(name) ==
    LET r == switchProfile(files, legacy, Now, name)
    IN  /\ Install(r.s)
        /\ Record([Call("switchProfile", name, r.ret.success, r.ret.msg)
                       EXCEPT !.text = Message(files, r.ret, name)])
        /\ UNCHANGED <<files, legacy, useMocks, exportLive, amazon, mocks, tasks>>

ConfirmSessionCall(name) ==
    LET r == confirmSession(files, legacy, Now, name)
    IN  /\ Install(r.s)
        /\ Record([Call("confirmSession", name, r.ret.success, r.ret.msg)
                       EXCEPT !.text = Message(files, r.ret, name)])
        /\ UNCHANGED <<files, legacy, useMocks, exportLive, amazon, mocks, tasks>>

\* save-profile, loading what it has saved when the profile saved is the
\* active one
SaveProfileCall_ReloadsActive(name, payload, io) ==
    LET r == saveProfile(files, name, payload, io)
        ld == loadProfile(r.fs, legacy, Now, name)
    IN  /\ files' = r.fs
        /\ Record([Call("saveProfile", name, r.ret.success, r.ret.msg)
                       EXCEPT !.payload = payload])
        /\ IF r.ret.success /\ name = currentProfile
           THEN Install(ld.s)
           ELSE UNCHANGED session
        /\ UNCHANGED <<legacy, useMocks, exportLive, amazon, mocks, tasks>>

SaveProfileCall(name, payload, io) ==
    LET r == saveProfile(files, name, payload, io)
    IN  /\ files' = r.fs
        /\ Record([Call("saveProfile", name, r.ret.success, r.ret.msg)
                       EXCEPT !.payload = payload])
        /\ UNCHANGED <<legacy, session, useMocks, exportLive, amazon, mocks, tasks>>

Untouched ==
    UNCHANGED <<files, legacy, session, useMocks, exportLive, amazon, mocks>>

\* list-profiles and get-current-profile only read
ListProfilesCall ==
    /\ Record([Call("listProfiles", "", TRUE, "")
                   EXCEPT !.out = listProfiles(files)])
    /\ Untouched
    /\ UNCHANGED tasks

GetCurrentProfileCall ==
    /\ Record(Call("getCurrentProfile", "", TRUE, ""))
    /\ Untouched
    /\ UNCHANGED tasks

(***************************************************************************)
(* Tool arguments.  An ASIN is a sequence of characters.                   *)
(***************************************************************************)
AsinLength == 10

ValidAsin == <<"B", "0", "8", "N", "5", "W", "R", "W", "N", "W">>
Asins ==
    {ValidAsin, <<>>, SubSeq(ValidAsin, 1, 9), ValidAsin \o <<"X">>,
     <<"I", "N", "V", "A", "L", "I", "D">>}

\* z.string().length(10) of the add-to-cart and get-product-details tools
asinSchema(asin) == Len(asin) = AsinLength

InvalidAsin == <<"Invalid ASIN provided. ASIN should be a 10-character string.">>

\* addToCart's test, taking any identifier that is not empty
asinAccepted_NotEmpty(asin) == asin # <<>>

\* addToCart: !asin || asin.length !== 10 throws
asinAccepted(asin) == asin # <<>> /\ Len(asin) = AsinLength

\* The text of perform-purchase, always naming the default profile
PurchaseConfirmed_Default(profile) ==
    <<"Purchase confirmed! You can now consult your orders history to see the details of your latest purchase.",
      " (Profile: ", "personal", ")">>

\* The text perform-purchase answers with
PurchaseConfirmed(profile) ==
    <<"Purchase confirmed! You can now consult your orders history to see the details of your latest purchase.",
      " (Profile: ", profile, ")">>

ReadFailed == <<"ENOENT: no such file or directory, open ", "mocks">>

\* getCartContent / getOrdersHistory under USE_MOCKS, reading the live
\* page all the same
readMock_Live(tool) ==
    IF tool = "get-cart-content"
    THEN [err |-> NoError, out |-> <<extractCartPageData(amazon.cart)>>]
    ELSE [err |-> NoError, out |-> <<extractOrders(amazon.orders)>>]

\* getCartContent / getOrdersHistory under USE_MOCKS: fs.readFileSync of
\* the operation's mock file, then the extraction
readMock(tool) ==
    LET snap == IF tool = "get-cart-content" THEN mocks.cart ELSE mocks.orders
    IN  IF ~snap.present
        THEN [err |-> ReadFailed, out |-> <<>>]
        ELSE IF tool = "get-cart-content"
        THEN [err |-> NoError, out |-> <<extractCartPageData(snap.content)>>]
        ELSE [err |-> NoError, out |-> <<extractOrders(snap.content)>>]

\* The call of an operation that goes to the browser: the synchronous
\* head runs, then puppeteer.launch is awaited.
Launch(op, tool, asin) ==
    /\ BagCardinality(tasks) < MaxTasks
    /\ Record([Call(op, tool, TRUE, "launching") EXCEPT !.asin = asin])
    /\ tasks' = tasks (+) SetToBag({NewTask(tool)})

\* addToCart(asin) up to its first await
addToCart(op, asin) ==
    IF ~asinAccepted(asin)
    THEN /\ Record([Call(op, "add-to-cart", FALSE, "error")
                        EXCEPT !.asin = asin, !.text = HandlerError(InvalidAsin)])
         /\ UNCHANGED tasks
    ELSE Launch(op, "add-to-cart", asin)

\* addToCart called as the exported function it is, not through its tool
AddToCartCall(asin) ==
    /\ Untouched
    /\ addToCart("addToCart", asin)

(***************************************************************************)
(* An identity-scoped tool handler up to its first await.  The tool's      *)
(* schema is applied to the arguments before the handler runs.             *)
(***************************************************************************)
InvokeIdentityTool(tool, asin) ==
    LET Answer(ok, msg) ==
            [Call("invoke", tool, ok, msg)
                EXCEPT !.asin = IF tool = "add-to-cart" THEN asin ELSE <<>>]
    IN  /\ Untouched
        /\ IF tool = "add-to-cart" /\ ~asinSchema(asin)
           THEN /\ Record(Answer(FALSE, "invalid_params"))
                /\ UNCHANGED tasks
           ELSE IF requireSessionConfirmation(sessionConfirmed).prompt
           THEN /\ Record([Answer(FALSE, "prompt") EXCEPT !.out =
                              <<getConfirmationPrompt(files, currentProfile)>>])
                /\ UNCHANGED tasks
           ELSE IF tool = "perform-purchase"
           THEN /\ Record([Answer(TRUE, "ok")
                              EXCEPT !.text = PurchaseConfirmed(currentProfile)])
                /\ UNCHANGED tasks
           ELSE IF useMocks /\ tool \in SnapshotTools
           THEN /\ LET r == readMock(tool)
                   IN  Record([Answer(TRUE, IF r.err = NoError THEN "ok" ELSE "error")
                                  EXCEPT !.out = r.out,
                                         !.text = IF r.err = NoError THEN <<>>
                                                  ELSE HandlerError(r.err)])
                /\ UNCHANGED tasks
           ELSE IF tool = "add-to-cart"
           THEN addToCart("invoke", asin)
           ELSE Launch("invoke", tool, <<>>)

\* searchProducts and getProductDetails are outside the sources at hand:
\* public operations that read and write nothing of the session.
ProductsOperation(tool, asin) ==
    /\ Untouched
    /\ UNCHANGED tasks
    /\ Record([Call("invoke", tool, TRUE, "done") EXCEPT !.asin = asin])

\* What the schema of a public tool makes of its arguments: the ASIN of
\* get-product-details; search-products has none.
PublicArg(tool, asin) == IF tool = "get-product-details" THEN asin ELSE <<>>

\* search-products and get-product-details, asking for a confirmation
InvokePublicTool_Gated(tool, asin) ==
    IF tool = "get-product-details" /\ ~asinSchema(asin)
    THEN /\ Untouched
         /\ UNCHANGED tasks
         /\ Record([Call("invoke", tool, FALSE, "invalid_params")
                        EXCEPT !.asin = asin])
    ELSE IF requireSessionConfirmation(sessionConfirmed).prompt
    THEN /\ Untouched
         /\ UNCHANGED tasks
         /\ Record([Call("invoke", tool, FALSE, "prompt")
                        EXCEPT !.asin = PublicArg(tool, asin),
                               !.out = <<getConfirmationPrompt(files, currentProfile)>>])
    ELSE ProductsOperation(tool, PublicArg(tool, asin))

\* search-products and get-product-details: the schema, then the
\* operation; no gate.
InvokePublicTool(tool, asin) ==
    IF tool = "get-product-details" /\ ~asinSchema(asin)
    THEN /\ Untouched
         /\ UNCHANGED tasks
         /\ Record([Call("invoke", tool, FALSE, "invalid_params")
                        EXCEPT !.asin = asin])
    ELSE ProductsOperation(tool, PublicArg(tool, asin))

\* A task ends with err thrown past the operation: the handler answers
\* its error text; the task's browser stays as it is.
Finish(t, err) ==
    /\ Remove(t)
    /\ Record(Return(t, err, t.browser))

Advance(t, u) ==
    /\ Replace(t, u)
    /\ Record(Step)

(***************************************************************************)
(* createBrowserAndPage, one action per await.                             *)
(***************************************************************************)
\* puppeteer.launch settles; on success the cookies are read at once
LaunchDone(t) ==
    /\ t.pc = "launch"
    /\ Untouched
    /\ \/ Finish(t, Failed)
       \/ LET u == [t EXCEPT !.browser = "open", !.cookies = currentCookies]
          IN  IF Len(currentCookies) > 0
              THEN Advance(t, [u EXCEPT !.pc = "setCookie"])
              ELSE Advance(t, [u EXCEPT !.pc = "newPage"])

\* setCookie called without the spread: only the first cookie goes in
SetCookieDone_FirstOnly(t) ==
    /\ t.pc = "setCookie"
    /\ Untouched
    /\ \/ Finish(t, Failed)
       \/ Advance(t, [t EXCEPT !.jar = <<Head(t.cookies)>>, !.pc = "newPage"])

\* browser.setCookie(...cookies) settles
SetCookieDone(t) ==
    /\ t.pc = "setCookie"
    /\ Untouched
    /\ \/ Finish(t, Failed)
       \/ Advance(t, [t EXCEPT !.jar = t.cookies, !.pc = "newPage"])

\* browser.newPage settles
NewPageDone(t) ==
    /\ t.pc = "newPage"
    /\ Untouched
    /\ \/ Finish(t, Failed)
       \/ Advance(t, [t EXCEPT !.pc = "setup"])

\* evaluateOnNewDocument, setUserAgent, setViewport settle; the caller
\* enters its try block and calls page.goto
PageSetupDone(t) ==
    /\ t.pc = "setup"
    /\ Untouched
    /\ \/ Finish(t, Failed)
       \/ Advance(t, [t EXCEPT !.pc = "goto", !.gotos = t.gotos + 1])

(***************************************************************************)
(* The caller's try block; every failure in it goes through finally.       *)
(***************************************************************************)
\* An error thrown inside the try block: clearCart catches it and throws
\* "Failed to clear cart: <message>" in its place, the others let it pass.
Thrown(t, err) ==
    IF t.tool = "clear-cart" THEN <<"Failed to clear cart: ">> \o err ELSE err

Throw(t, err) == Advance(t, [t EXCEPT !.pc = "close", !.err = Thrown(t, err)])

\* A puppeteer call rejects
Fail(t) == Throw(t, Failed)

\* Once page.goto has settled, the url and the cookies handed to
\* setCookie are no longer read, and gateProfile has served.
Landed(t) ==
    [t EXCEPT !.domain = NoDomain, !.cookies = <<>>, !.gateProfile = "none"]

\* page.goto wrapped in a retry: a failed navigation is tried once more
GotoDone_RetriesOnce(t) ==
    /\ t.pc = "goto"
    /\ Untouched
    /\ \/ IF t.gotos < 2
          THEN Advance(t, [t EXCEPT !.gotos = t.gotos + 1])
          ELSE Advance(t, [Landed(t) EXCEPT !.pc = "close",
                                            !.err = Thrown(t, Failed)])
       \/ Advance(t, [Landed(t) EXCEPT !.pc = "login", !.page = PageFor(t.jar)])

\* await page.goto(url) settles
GotoDone(t) ==
    /\ t.pc = "goto"
    /\ Untouched
    /\ \/ Advance(t, [Landed(t) EXCEPT !.pc = "close", !.err = Thrown(t, Failed)])
       \/ Advance(t, [Landed(t) EXCEPT !.pc = "login", !.page = PageFor(t.jar)])

\* the operation without its call of throwIfNotLoggedIn
LoginCheckDone_Skipped(t) ==
    /\ t.pc = "login"
    /\ Untouched
    /\ \/ Fail(t)
       \/ Advance(t, [t EXCEPT !.pc = "marker"])

\* throwIfNotLoggedIn: page.$('#ap_email'), page.$('#signInSubmit')
LoginCheckDone(t) ==
    /\ t.pc = "login"
    /\ Untouched
    /\ \/ Fail(t)
       \/ IF t.page = "login"
          THEN Throw(t, NotLoggedIn)
          ELSE Advance(t, [t EXCEPT !.pc = "marker"])

\* The marker an operation waits for: 'body' for add-to-cart, the cart or
\* order containers for the others; the sign-in page has only the former.
MarkerPresent(t) == t.tool = "add-to-cart" \/ t.page = "content"

\* page.waitForSelector of the operation's structural marker
MarkerDone(t) ==
    /\ t.pc = "marker"
    /\ Untouched
    /\ \/ Fail(t)
       \/ /\ MarkerPresent(t)
          /\ Advance(t, [t EXCEPT !.pc =
                 IF t.tool \in SnapshotTools /\ exportLive THEN "capture"
                 ELSE "work"])

WriteFailed == <<"ENOENT: no such file or directory, open ", "mocks">>

\* page.$eval of the markup, then fs.writeFileSync of the snapshot file:
\* either may throw, and nothing around them catches.  The write throws
\* when the mocks directory does not take it.
CaptureDone(t) ==
    /\ t.pc = "capture"
    /\ Untouched
    /\ \/ Fail(t)
       \/ IF mocks.writable
          THEN Advance(t, [t EXCEPT !.pc = "work"])
          ELSE Throw(t, WriteFailed)

CouldNotVerify(cause) ==
    <<"Could not verify that the product was added to cart: ">> \o cause

\* addToCart taking any confirmation element for a success
verifyAdded_AnyText(c) ==
    IF ~c.appears
    THEN CouldNotVerify(<<"TimeoutError">>)
    ELSE NoError

\* addToCart's last block: wait for #sw-atc-confirmation, read its text,
\* look for one of the two phrases.  The error thrown, NoError for a
\* success.
verifyAdded(c) ==
    IF ~c.appears
    THEN CouldNotVerify(<<"TimeoutError">>)
    ELSE IF ~Includes(c.text, "Added to cart") /\ ~Includes(c.text, "Added to basket")
    THEN CouldNotVerify(<<"Error: Unexpected confirmation message: ">> \o c.text)
    ELSE NoError

CouldNotClick(cause) ==
    <<"Could not find or click the add to cart button: ">> \o cause

\* addToCart declining the coverage before it clicks the add-to-cart
\* control
addToCartFlow_CoverageFirst(site) ==
    LET p == site.product
        first == IF p.oneTime = "absent" THEN <<>> ELSE <<"one-time purchase">>
    IN  IF p.button = "absent"
        THEN [trace |-> first \o <<"coverage">>,
              err |-> CouldNotClick(<<"TimeoutError">>)]
        ELSE IF p.button = "stuck"
        THEN [trace |-> first \o <<"coverage", "add-to-cart">>,
              err |-> CouldNotClick(Failed)]
        ELSE [trace |-> first \o <<"coverage", "add-to-cart", "confirmation">>,
              err |-> verifyAdded(site.confirmation)]

\* addToCart on the product page, between the wait for 'body' and the
\* finally block: what it does on the page, in order, and the error it
\* throws (NoError for a success).  The one-time-purchase option is
\* clicked when the wait for it finds it; the add-to-cart control is
\* waited for and clicked, and a failure of either throws; the coverage
\* is declined, a failure being caught; the confirmation is verified.
addToCartFlow(site) ==
    LET p == site.product
        first == IF p.oneTime = "absent" THEN <<>> ELSE <<"one-time purchase">>
    IN  IF p.button = "absent"
        THEN [trace |-> first, err |-> CouldNotClick(<<"TimeoutError">>)]
        ELSE IF p.button = "stuck"
        THEN [trace |-> first \o <<"add-to-cart">>, err |-> CouldNotClick(Failed)]
        ELSE [trace |-> first \o <<"add-to-cart", "coverage", "confirmation">>,
              err |-> verifyAdded(site.confirmation)]

\* The click on the one-time-purchase option is not awaited: when it
\* rejects, nothing handles the rejection, and Node ends the process (its
\* default since version 15) while addToCart is in its two-second pause,
\* with every browser still open and no answer given.
Exit(t) ==
    /\ tasks' = EmptyBag
    /\ Record([Step EXCEPT !.op = "exit", !.arg = t.tool, !.ok = FALSE,
                           !.msg = "exit", !.page = t.page, !.browser = "open"])

\* page.content, the clicks of add-to-cart, or clearCart's first query
\* of the delete controls
WorkDone(t) ==
    /\ t.pc = "work"
    /\ Untouched
    /\ \/ Fail(t)
       \/ IF t.tool = "clear-cart"
          THEN LET n == amazon.cart.buttons
               IN  Advance(t, [t EXCEPT !.seen = n, !.buttons = n,
                                        !.pc = IF n = 0 THEN "close" ELSE "delete"])
          ELSE IF t.tool # "add-to-cart"
          THEN Advance(t, [t EXCEPT !.pc = "close"])
          ELSE IF t.page = "login"
          THEN Fail(t)        \* no #add-to-cart-button on the sign-in page
          ELSE LET f == addToCartFlow(amazon)
               IN  \/ Advance(t, [t EXCEPT !.pc = "close", !.trace = f.trace,
                                           !.err = Thrown(t, f.err)])
                   \/ amazon.product.oneTime = "stuck" /\ Exit(t)

\* The end of an iteration of clearCart's loop: i++, and out of the loop
\* when i has reached deleteButtons.length
Iterated(t) ==
    [t EXCEPT !.i = t.i + 1,
              !.pc = IF t.i + 1 = t.seen THEN "close" ELSE "delete"]

\* the loop without the try around its body: a failure leaves clearCart
DeleteDone_AbortsOnFailure(t) ==
    /\ t.pc = "delete"
    /\ Untouched
    /\ \/ Fail(t)
       \/ IF t.buttons = 0
          THEN Advance(t, [t EXCEPT !.pc = "close"])
          ELSE \/ Advance(t, Iterated([t EXCEPT !.removed = t.removed + 1,
                                                !.buttons = t.buttons - 1]))
               \/ Fail(t)

\* the loop counting the item before it clicks
DeleteDone_CountsAttempts(t) ==
    /\ t.pc = "delete"
    /\ Untouched
    /\ \/ Advance(t, Iterated(t))
       \/ IF t.buttons = 0
          THEN Advance(t, [t EXCEPT !.pc = "close"])
          ELSE \/ Advance(t, Iterated([t EXCEPT !.removed = t.removed + 1,
                                                !.buttons = t.buttons - 1]))
               \/ Advance(t, Iterated([t EXCEPT !.removed = t.removed + 1]))

\* page.$$('span[data-action="delete-active"]') resolves: the handles
\* held are those of the page as it is now
Requeried(t) == [t EXCEPT !.held = t.seen - t.buttons]

\* click() on a handle the invocation holds
Clicked(t) == [t EXCEPT !.stale = t.stale \/ t.held # t.seen - t.buttons]

\* the loop clicking deleteButtons[i], the handles of its first query
DeleteDone_CachedHandles(t) ==
    /\ t.pc = "delete"
    /\ Untouched
    /\ LET c == Clicked(t)
       IN  \/ Advance(t, Iterated([c EXCEPT !.removed = t.removed + 1,
                                            !.buttons = t.buttons - 1]))
           \/ Advance(t, Iterated(c))

\* the loop going on for as long as a delete control is left
DeleteDone_UntilNoneLeft(t) ==
    /\ t.pc = "delete"
    /\ Untouched
    /\ LET q == Requeried(t)
           c == Clicked(q)
       IN  \/ Advance(t, [t EXCEPT !.i = t.i + 1])
           \/ IF t.buttons = 0
              THEN Advance(t, [q EXCEPT !.pc = "close"])
              ELSE \/ Advance(t, [c EXCEPT !.removed = t.removed + 1,
                                           !.buttons = t.buttons - 1,
                                           !.i = t.i + 1])
                   \/ Advance(t, [c EXCEPT !.i = t.i + 1])

\* One iteration of clearCart's loop: the delete controls are queried
\* again; with none left the loop ends; otherwise the first is clicked
\* and, if the click resolves, counted.  A query or a click that rejects
\* is caught inside the loop.  A click that resolves takes its item off
\* the page; one that rejects may or may not have.
DeleteDone(t) ==
    /\ t.pc = "delete"
    /\ Untouched
    /\ LET q == Requeried(t)
           c == Clicked(q)
       IN  \/ Advance(t, Iterated(t))
           \/ IF t.buttons = 0
              THEN Advance(t, [q EXCEPT !.pc = "close"])
              ELSE \/ Advance(t, Iterated([c EXCEPT !.removed = t.removed + 1,
                                                    !.buttons = t.buttons - 1]))
                   \/ Advance(t, Iterated(c))
                   \/ Advance(t, Iterated([c EXCEPT !.buttons = t.buttons - 1]))

\* finally { await browser.close() }, then the handler answers.  A close
\* that rejects throws from the finally block, in place of whatever the
\* try block had returned or thrown.
CloseDone(t) ==
    /\ t.pc = "close"
    /\ Untouched
    /\ Remove(t)
    /\ \/ Record(Return(t, t.err, "closed"))
       \/ Record(Return(t, Failed, "open"))

TaskStep ==
    \/ \E t \in InFlight : LaunchDone(t)
    \/ \E t \in InFlight : SetCookieDone(t)
    \/ \E t \in InFlight : NewPageDone(t)
    \/ \E t \in InFlight : PageSetupDone(t)
    \/ \E t \in InFlight : GotoDone(t)
    \/ \E t \in InFlight : LoginCheckDone(t)
    \/ \E t \in InFlight : MarkerDone(t)
    \/ \E t \in InFlight : CaptureDone(t)
    \/ \E t \in InFlight : WorkDone(t)
    \/ \E t \in InFlight : CloseDone(t)

\* Malformed profile names are tried in SpecProfiles and SpecCookies.
Next ==
    \/ \E name \in ProfileNames : SwitchProfileCall(name)
    \/ \E name \in ProfileNames \cup {""} : ConfirmSessionCall(name)
    \/ \E payload \in {ArrayOf(<<>>), ArrayOf(WorkCookies)} :
          SaveProfileCall("work", payload, "ok")
    \/ ListProfilesCall
    \/ GetCurrentProfileCall
    \/ \E tool \in IdentityTools : InvokeIdentityTool(tool, ValidAsin)
    \/ \E tool \in PublicTools : InvokePublicTool(tool, ValidAsin)
    \/ TaskStep

Spec == Init /\ [][Next]_vars

NextProfiles ==
    \/ \E name \in NameArgs \ {""} : SwitchProfileCall(name)
    \/ \E name \in NameArgs : ConfirmSessionCall(name)
    \/ \E name \in ProfileNames \cup {"Bad Name"}, payload \in Payloads,
          io \in WriteOutcomes : SaveProfileCall(name, payload, io)
    \/ ListProfilesCall
    \/ GetCurrentProfileCall

SpecProfiles == InitProfiles /\ [][NextProfiles]_vars

\* The profile manager's cookie handling, started on directories that
\* hold hand-made files too.
InitCookies ==
    \E p0 \in {Absent, Corrupt, ArrayOf(PersonalCookies)},
       w0 \in {Absent, NonArray, ArrayOf(WorkCookies), ArrayOf(HandMade),
               ArrayOf(<<>>)},
       l0 \in {Absent, ArrayOf(LegacyCookies)},
       migrates \in BOOLEAN :
        /\ InitWith(InitFiles(p0, w0), l0, migrates)
        /\ amazon = Site({"p1", "w1"}, Shown(AddedToCart))

NextCookies ==
    \/ \E name \in NameArgs \ {""}, payload \in CookiePayloads :
          SaveProfileCall(name, payload, "ok")
    \/ \E name \in ProfileNames : SwitchProfileCall(name)
    \/ ListProfilesCall
    \/ \E tool \in IdentityTools : InvokeIdentityTool(tool, ValidAsin)

SpecCookies == InitCookies /\ [][NextCookies]_vars

NextPages ==
    \/ ConfirmSessionCall("")
    \/ \E tool \in IdentityTools : InvokeIdentityTool(tool, ValidAsin)
    \/ TaskStep

SpecPages == InitPages /\ [][NextPages]_vars

\* The tool handlers up to their first await, called with any ASIN, on
\* two profiles.
InitTools ==
    /\ InitWith(InitFiles(ArrayOf(PersonalCookies), ArrayOf(WorkCookies)),
                Absent, TRUE)
    /\ amazon = Site({"p1", "w1"}, Shown(AddedToCart))

NextTools ==
    \/ \E name \in ProfileNames : SwitchProfileCall(name)
    \/ \E name \in ProfileNames \cup {""} : ConfirmSessionCall(name)
    \/ \E tool \in IdentityTools, asin \in Asins : InvokeIdentityTool(tool, asin)
    \/ \E tool \in PublicTools, asin \in Asins : InvokePublicTool(tool, asin)
    \/ \E asin \in Asins : AddToCartCall(asin)

SpecTools == InitTools /\ [][NextTools]_vars

\* clearCart's loop runs on a page that has delete controls
CartStep == \E t \in InFlight : DeleteDone(t)

\* One confirmed profile, reading and clearing any cart.
InitCart ==
    /\ InitWith(InitFiles(ArrayOf(PersonalCookies), Absent), Absent, TRUE)
    /\ amazon \in {SiteWith({"p1"}, Shown(AddedToCart), cart, NoOrders) :
                      cart \in Carts}

NextCart ==
    \/ ConfirmSessionCall("")
    \/ \E tool \in {"get-cart-content", "clear-cart"} :
          InvokeIdentityTool(tool, ValidAsin)
    \/ TaskStep
    \/ CartStep

SpecCart == InitCart /\ [][NextCart]_vars

\* Builds with and without mock-sourcing and capture, on mocks
\* directories with and without stored snapshots, writable or not.
InitSnapshots ==
    /\ InitSession(InitFiles(ArrayOf(PersonalCookies), Absent), Absent, TRUE)
    /\ \E mock \in BOOLEAN, export \in BOOLEAN, writable \in BOOLEAN,
          stored \in {<<NoSnapshot, NoSnapshot>>,
                      <<Snapshot(EmptyWithNodes), Snapshot(TwoOrders)>>,
                      <<Snapshot(CartOf(1)), Snapshot(NoOrders)>>} :
          InitBuild(mock, export, Mocks(stored[1], stored[2], writable))
    /\ amazon \in {SiteWith({"p1"}, Shown(AddedToCart), CartOf(1), TwoOrders),
                    SiteWith({"p1"}, Shown(AddedToCart), EmptyCart, NoOrders)}

NextSnapshots ==
    \/ ConfirmSessionCall("")
    \/ \E tool \in SnapshotTools : InvokeIdentityTool(tool, ValidAsin)
    \/ TaskStep

SpecSnapshots == InitSnapshots /\ [][NextSnapshots]_vars

\* One confirmed profile adding a product to the cart from any product
\* page.  Nothing runs once the process has ended.
InitProduct ==
    /\ InitWith(InitFiles(ArrayOf(PersonalCookies), Absent), Absent, TRUE)
    /\ amazon \in {[Site({"p1"}, c) EXCEPT !.product = p] :
                      c \in {Shown(AddedToCart), Shown(Unavailable), NeverShown},
                      p \in Products}

NextProduct ==
    \/ last.op # "exit" /\ ConfirmSessionCall("")
    \/ last.op # "exit" /\ InvokeIdentityTool("add-to-cart", ValidAsin)
    \/ last.op # "exit" /\ TaskStep

SpecProduct == InitProduct /\ [][NextProduct]_vars

(***************************************************************************)
(* Properties.                                                             *)
(***************************************************************************)

\* C1: after any switchProfile call that returns success, sessionConfirmed
\* is false, whatever the flag was before the call and whether or not the
\* target was already the active profile.
C1_SwitchClearsConfirmation ==
    (last.op = "switchProfile" /\ last.ok) => ~sessionConfirmed

\* A switch to the profile that was already active, made while confirmed.
C1_Witness ==
    /\ last.op = "switchProfile"
    /\ last.ok
    /\ last.preConfirmed
    /\ last.arg = last.preProfile

\* C2: each of the five identity-scoped tools, invoked while unconfirmed,
\* answers the confirmation prompt and starts nothing (no browser launch,
\* no change to any task in flight); invoked while confirmed it answers no
\* prompt and goes on: perform-purchase answers at once, the others go on
\* to launch a browser (or, when mocked, to read the stored snapshot).
C2_GateDecidesInvocation ==
    [][\A tool \in IdentityTools :
          (last'.op = "invoke" /\ last'.arg = tool) =>
              IF sessionConfirmed
              THEN /\ last'.msg # "prompt"
                   /\ last'.ok
                   /\ (tool \in BrowserTools /\ ~(useMocks /\ tool \in SnapshotTools)) =>
                         /\ BagCardinality(tasks') = BagCardinality(tasks) + 1
                         /\ \E u \in BagToSet(tasks') :
                               u.tool = tool /\ u.pc = "launch" /\ u.browser = "none"
              ELSE /\ last'.msg = "prompt"
                   /\ ~last'.ok
                   /\ tasks' = tasks]_vars

\* clear-cart answered the prompt while an operation that had passed the
\* gate earlier is still in flight.
C2_Witness ==
    /\ last.op = "invoke"
    /\ last.arg = "clear-cart"
    /\ last.msg = "prompt"
    /\ BagCardinality(tasks) = 1

\* C3: under any interleaving, an identity-scoped operation that passed
\* the gate injects the cookies of, and navigates to the domain of, the
\* profile that was active and confirmed when the gate was checked: at the
\* moment the cookies are read for injection the session is still
\* confirmed, on the gate's profile, and the domain resolved at the gate is
\* the domain of the cookies read.
C3_InjectsGateProfile ==
    [][\A t \in InFlight :
          (t.pc = "launch" /\ last'.op = "step" /\ LaunchDone(t)) =>
              /\ sessionConfirmed
              /\ currentProfile = t.gateProfile
              /\ getAmazonDomain(currentCookies) = t.domain]_vars

\* C4: sessionConfirmed is true only if a confirmSession call has returned
\* success and no switchProfile call has returned success since; it is
\* false after construction.
C4_ConfirmedOnlyByConfirmation ==
    /\ sessionConfirmed => standing
    /\ last.op = "init" => ~sessionConfirmed

\* A confirmation that asked for a switch, and got it.
C4_Witness ==
    /\ sessionConfirmed
    /\ last.op = "confirmSession"
    /\ last.arg = "work"
    /\ last.preProfile = "personal"
    /\ last.ok

\* C5: a switchProfile call that fails leaves the active profile, the
\* in-memory cookies and the confirmed flag as they were.
C5_FailedSwitchChangesNothing ==
    [][(last'.op = "switchProfile" /\ ~last'.ok) => UNCHANGED session]_vars

\* A file that exists but does not load, switched to while confirmed.
C5_Witness ==
    /\ last.op = "switchProfile"
    /\ last.msg = "load_failed"
    /\ last.preConfirmed
    /\ sessionConfirmed

\* C6: confirmSession with no argument, or with the name of the active
\* profile, returns success, leaves confirmed true and changes neither the
\* active profile nor its in-memory cookies.
C6_PlainConfirmKeepsProfile ==
    [][(last'.op = "confirmSession" /\ last'.arg \in {"", currentProfile}) =>
          /\ last'.ok
          /\ sessionConfirmed'
          /\ currentProfile' = currentProfile
          /\ currentCookies' = currentCookies]_vars

\* Confirmed again under the active profile's own name, after that
\* profile's file was overwritten: the cookies in memory are not re-read.
C6_Witness ==
    /\ last.op = "confirmSession"
    /\ last.arg = last.preProfile
    /\ last.preConfirmed
    /\ last.ok
    /\ files[currentProfile].kind = "array"
    /\ currentCookies # normalizeCookies(files[currentProfile].cookies)

\* C7: when confirmSession(name) names another profile and the switch to
\* it fails, the call returns the switch's failure and the active profile,
\* the cookies and the confirmed flag keep their values.
C7_FailedConfirmChangesNothing ==
    [][\A name \in NameArgs :
          LET sw == switchProfile(files, legacy, Now, name).ret
          IN  (/\ last'.op = "confirmSession"
               /\ last'.arg = name
               /\ name \notin {"", currentProfile}
               /\ ~sw.success) =>
                  /\ last'.ok = sw.success
                  /\ last'.msg = sw.msg
                  /\ UNCHANGED session]_vars

\* A confirmation naming a profile that has no file, made while confirmed.
C7_Witness ==
    /\ last.op = "confirmSession"
    /\ last.msg = "not_found"
    /\ ~last.ok
    /\ last.preConfirmed
    /\ sessionConfirmed

\* C8: once confirmed, the flag stays true across every step that is not
\* a successful switchProfile, and an identity-scoped tool invoked in that
\* state does not answer the prompt.
C8_ConfirmationStands ==
    [][(sessionConfirmed /\ ~(last'.op = "switchProfile" /\ last'.ok)) =>
          /\ sessionConfirmed'
          /\ (last'.op = "invoke" /\ last'.arg \in IdentityTools) =>
                 last'.msg # "prompt"]_vars

\* An identity-scoped operation has failed and the session is still
\* confirmed.
C8_Witness ==
    /\ last.op = "return"
    /\ last.msg = "error"
    /\ sessionConfirmed

\* C9: every browser launched for an operation is closed by the time the
\* operation returns or throws.
C9_BrowserClosedOnReturn ==
    last.op = "return" => last.browser # "open"

\* C10: in every browser session the whole cookie sequence read from the
\* session state is in the browser before the page is created and before
\* the navigation.
C10_CookiesBeforePage ==
    \A t \in InFlight :
        t.pc \in {"newPage", "setup", "goto"} => t.jar = t.cookies

\* A session about to navigate with both cookies of personal.json injected.
C10_Witness ==
    \E t \in InFlight : t.pc = "goto" /\ Len(t.jar) = 2

C12_LoginFormFailsFast ==
    /\ \A t \in InFlight :
          t.page = "login" =>
              /\ t.pc \in {"login", "close"}
              /\ t.pc = "close" =>
                    \/ Includes(t.err, "You need to be logged in to access this feature.")
                    \/ Includes(t.err, "browser call rejected")
    /\ (last.op = "return" /\ last.page = "login") =>
          /\ last.msg = "error"
          /\ ~last.ok
          /\ \/ Includes(last.text, "You need to be logged in to access this feature.")
             \/ Includes(last.text, "browser call rejected")

\* clear-cart answered the not-logged-in error, inside clearCart's own
\* wrapping, after landing on the sign-in form.
C12_Witness ==
    /\ last.op = "return"
    /\ last.arg = "clear-cart"
    /\ last.page = "login"
    /\ last.browser = "closed"
    /\ Includes(last.text, "You need to be logged in to access this feature.")
    /\ Includes(last.text, "Failed to clear cart: ")

\* C20: add-to-cart answers a success only if the confirmation element
\* appeared and its text contains "Added to cart" or "Added to basket";
\* when it answers an error, the error is that of an earlier step or the
\* could-not-verify error, and the latter is given exactly when the
\* element did not appear (it then carries the timeout) or appeared with
\* another text (it then carries that text).
C20_ConfirmationTextDecides ==
    (last.op = "return" /\ last.arg = "add-to-cart") =>
        LET c == amazon.confirmation
            accepted ==
                /\ c.appears
                /\ \/ Includes(c.text, "Added to cart")
                   \/ Includes(c.text, "Added to basket")
            earlier ==
                \/ Includes(last.text, "browser call rejected")
                \/ Includes(last.text, "You need to be logged in to access this feature.")
            unverified ==
                Includes(last.text, "Could not verify that the product was added to cart: ")
        IN  /\ last.ok => accepted
            /\ ~last.ok => (earlier \/ unverified)
            /\ accepted => ~unverified
            /\ (~accepted /\ ~earlier) =>
                  /\ ~last.ok
                  /\ unverified
                  /\ ~c.appears => Includes(last.text, "TimeoutError")
                  /\ c.appears =>
                        /\ Includes(last.text, "Error: Unexpected confirmation message: ")
                        /\ \A i \in 1..Len(c.text) : Includes(last.text, c.text[i])

\* The element showed "Item temporarily unavailable": add-to-cart answered
\* an error that carries it.
C20_Witness ==
    /\ last.op = "return"
    /\ last.arg = "add-to-cart"
    /\ ~last.ok
    /\ last.browser = "closed"
    /\ amazon.confirmation = Shown(Unavailable)
    /\ Includes(last.text, "Item temporarily unavailable")

\* C13: right after a payload C (a non-empty array whose elements all have
\* name, value and domain) has been saved under a valid name P, loading P
\* succeeds and gives as many cookies as C, in the same order, each with
\* the name, value and domain of its element of C, whatever the same-site
\* values in C.
C13_SaveThenLoad ==
    (last.op = "saveProfile" /\ last.ok) =>
        LET C == last.payload.cookies
            ld == loadProfile(files, legacy, Now, last.arg)
        IN  /\ ld.ok
            /\ ld.s.profile = last.arg
            /\ Len(ld.s.cookies) = Len(C)
            /\ \A i \in 1..Len(C) :
                  /\ ld.s.cookies[i].name = C[i].name
                  /\ ld.s.cookies[i].value = C[i].value
                  /\ ld.s.cookies[i].domain = C[i].domain

\* Four cookies with same-site None, null, none at all and "lax" have
\* been saved under work.
C13_Witness ==
    /\ last.op = "saveProfile"
    /\ last.ok
    /\ last.arg = "work"
    /\ last.payload = ArrayOf(MixedCookies)
    /\ files["work"] = ArrayOf(MixedCookies)

\* C14: saveProfile with a malformed name, a payload that is not an array,
\* an empty array or an array with an element lacking name, value or
\* domain fails with the message of that cause (the name is looked at
\* first) and leaves every profile file as it was.
C14_RejectedSaveTouchesNothing ==
    [][last'.op = "saveProfile" =>
          LET P == last'.payload
              badName == last'.arg \notin {"personal", "work"}
              notArray == P.kind = "nonarray"
              empty == P.kind = "array" /\ Len(P.cookies) = 0
              lacking ==
                  /\ P.kind = "array"
                  /\ \E i \in 1..Len(P.cookies) :
                        \/ P.cookies[i].name = ""
                        \/ P.cookies[i].value = ""
                        \/ P.cookies[i].domain = NoDomain
          IN  /\ (badName \/ notArray \/ empty \/ lacking) =>
                    (~last'.ok /\ files' = files)
              /\ badName => last'.msg = "invalid_name"
              /\ (~badName /\ notArray) => last'.msg = "not_array"
              /\ (~badName /\ empty) => last'.msg = "empty_array"
              /\ (~badName /\ lacking) => last'.msg = "missing_field"]_vars

\* A payload with a cookie that has no value was turned down while work
\* had a file.
C14_Witness ==
    /\ last.op = "saveProfile"
    /\ last.arg = "work"
    /\ last.msg = "missing_field"
    /\ files["work"] = ArrayOf(WorkCookies)

\* C15: a profile file that is an array of cookies always loads, and in
\* the cookies loaded "no_restriction" has become "None", "Strict", "Lax"
\* and "None" are kept, and every other same-site value (null and a
\* missing field included) has become absent.
C15_SameSiteNormalized ==
    \A P \in ProfileNames :
        (last.op = "switchProfile" /\ last.arg = P /\ files[P].kind = "array") =>
            LET F == files[P].cookies
            IN  /\ last.ok
                /\ currentProfile = P
                /\ Len(currentCookies) = Len(F)
                /\ \A i \in 1..Len(F) :
                      currentCookies[i].sameSite =
                          CASE F[i].sameSite = "no_restriction" -> "None"
                            [] F[i].sameSite = "Strict" -> "Strict"
                            [] F[i].sameSite = "Lax" -> "Lax"
                            [] F[i].sameSite = "None" -> "None"
                            [] OTHER -> "absent"

\* The profile with same-site None, null, none at all and "lax" is loaded.
C15_Witness ==
    /\ last.op = "switchProfile"
    /\ last.ok
    /\ files[currentProfile] = ArrayOf(MixedCookies)
    /\ Len(currentCookies) = 4

\* C16: when the cookies hold both a dot-prefixed and a www.-prefixed
\* amazon domain, the domain extracted is that of a dot-prefixed cookie
\* without its dot, in whatever order the cookies come.
C16_DotPrefixedPreferred ==
    LET dotted == {i \in 1..Len(currentCookies) :
                      /\ IncludesAmazon(currentCookies[i].domain)
                      /\ currentCookies[i].domain[1] = "."}
        www == {i \in 1..Len(currentCookies) :
                      /\ IncludesAmazon(currentCookies[i].domain)
                      /\ currentCookies[i].domain[1] = "www."}
    IN  (dotted # {} /\ www # {}) =>
            /\ \E i \in dotted :
                  extractDomain(currentCookies) = Tail(currentCookies[i].domain)
            /\ \E i \in dotted :
                  getAmazonDomain(currentCookies) = Tail(currentCookies[i].domain)

\* C17: with no cookies, or with none whose domain has the amazon token,
\* getAmazonDomain gives "amazon.com".
C17_DefaultDomain ==
    (\A i \in 1..Len(currentCookies) : ~IncludesAmazon(currentCookies[i].domain)) =>
        getAmazonDomain(currentCookies) = <<"amazon", ".com">>

\* A profile whose only cookie is for another site is loaded.
C17_Witness ==
    /\ last.op = "switchProfile"
    /\ last.ok
    /\ Len(currentCookies) = 1
    /\ currentCookies[1].domain = <<".", "example", ".org">>

\* C18: the answer of listProfiles has exactly one entry per profile file,
\* in directory order; the entry of a file that is an array carries the
\* number of its cookies and the domain of its first amazon cookie without
\* the leading dot (2 cookies on .amazon.com and 1 on .amazon.co.uk give
\* counts 2 and 1 and domains amazon.com and amazon.co.uk); the entry of a
\* file that does not parse, or is not an array, has count 0 and no domain.
C18_OneEntryPerFile ==
    last.op = "listProfiles" =>
        LET r == last.out
            entriesOf(P) == {i \in 1..Len(r) : r[i].name = P}
        IN  /\ \A i \in 1..Len(r) : r[i].name \in ProfileNames
            /\ \A P \in ProfileNames :
                  /\ files[P].kind = "absent" => entriesOf(P) = {}
                  /\ files[P].kind # "absent" => Cardinality(entriesOf(P)) = 1
                  /\ \A i \in entriesOf(P) :
                        /\ files[P].kind = "array" =>
                              r[i].cookieCount = Len(files[P].cookies)
                        /\ files[P].kind \in {"corrupt", "nonarray"} =>
                              (r[i].cookieCount = 0 /\ r[i].domain = NoDomain)
                        /\ (/\ files[P].kind = "array"
                            /\ Len(files[P].cookies) > 0
                            /\ \A k \in 1..Len(files[P].cookies) :
                                  /\ IncludesAmazon(files[P].cookies[k].domain)
                                  /\ files[P].cookies[k].domain[1] = ".") =>
                              r[i].domain = Tail(files[P].cookies[1].domain)
            /\ (/\ files["personal"] = ArrayOf(PersonalCookies)
                /\ files["work"] = ArrayOf(WorkCookies)) =>
                  r = << [name |-> "personal", cookieCount |-> 2,
                          domain |-> <<"amazon", ".com">>],
                         [name |-> "work", cookieCount |-> 1,
                          domain |-> <<"amazon", ".co.uk">>] >>

\* A listing made while personal.json did not parse and work.json held
\* one cookie.
C18_Witness ==
    /\ last.op = "listProfiles"
    /\ files["personal"].kind = "corrupt"
    /\ files["work"] = ArrayOf(WorkCookies)
    /\ Len(last.out) = 2
    /\ last.out[1] = [name |-> "personal", cookieCount |-> 0, domain |-> NoDomain]

\* C19: the prompt a gate answers with has the type tag, the active
\* profile as currentProfile, the names of the listed profiles as
\* availableProfiles and one option per listed profile, in the same
\* order, whose value is the profile's name; the label of an option has
\* the current mark exactly when its value is the active profile.
C19_PromptListsProfiles ==
    (last.op = "invoke" /\ last.msg = "prompt") =>
        LET p == last.out[1]
            listed == listProfiles(files)
        IN  /\ Len(last.out) = 1
            /\ p.type = "AMAZON_PROFILE_CONFIRMATION_REQUIRED"
            /\ p.currentProfile = currentProfile
            /\ Len(p.availableProfiles) = Len(listed)
            /\ Len(p.options) = Len(listed)
            /\ \A i \in 1..Len(listed) :
                  /\ p.availableProfiles[i] = listed[i].name
                  /\ p.options[i].value = listed[i].name
                  /\ Includes(p.options[i].label, " (current)")
                        <=> p.options[i].value = currentProfile
                  /\ p.options[i].label[1] = listed[i].name

\* A gate asked while work was active and both profiles had a file: the
\* second option is the current one.
C19_Witness ==
    /\ last.op = "invoke"
    /\ last.msg = "prompt"
    /\ currentProfile = "work"
    /\ Len(last.out) = 1
    /\ Len(last.out[1].options) = 2
    /\ Includes(last.out[1].options[2].label, " (current)")
    /\ ~Includes(last.out[1].options[1].label, " (current)")

\* C29: every cookie of the session's cookie sequence has a non-empty
\* name, a non-empty value and a non-empty domain, whatever file the
\* sequence was loaded from (saved, migrated or written by hand).
C29_LoadedCookiesComplete ==
    \A i \in 1..Len(currentCookies) :
        /\ currentCookies[i].name # ""
        /\ currentCookies[i].value # ""
        /\ currentCookies[i].domain # NoDomain

\* C30: after a saveProfile call that reports a failed write, the named
\* profile's file holds either what it held before the call or the whole
\* new payload.
C30_FailedWriteKeepsFileWhole ==
    [][(last'.op = "saveProfile" /\ last'.msg = "write_failed") =>
          /\ ~last'.ok
          /\ files'[last'.arg] \in {files[last'.arg], last'.payload}]_vars

\* C24: search-products and get-product-details never answer the
\* confirmation prompt and leave the active profile, its cookies and the
\* confirmed flag as they were; called with arguments their schema takes,
\* they go on to their operation whether or not the session is confirmed.
C24_PublicToolsUngated ==
    [][\A tool \in PublicTools :
          (last'.op = "invoke" /\ last'.arg = tool) =>
              /\ last'.msg # "prompt"
              /\ last'.out = <<>>
              /\ UNCHANGED session
              /\ (tool = "search-products" \/ Len(last'.asin) = 10) =>
                    (last'.ok /\ last'.msg = "done")]_vars

\* search-products went on while work was active and not confirmed.
C24_Witness ==
    /\ last.op = "invoke"
    /\ last.arg = "search-products"
    /\ last.msg = "done"
    /\ currentProfile = "work"
    /\ ~last.preConfirmed
    /\ ~sessionConfirmed

\* C25: perform-purchase starts no browser and changes neither the session
\* nor any profile file; confirmed, it answers the purchase-confirmed text
\* with the name of the active profile, and otherwise the prompt.
C25_PurchaseIsMocked ==
    [][(last'.op = "invoke" /\ last'.arg = "perform-purchase") =>
          /\ tasks' = tasks
          /\ UNCHANGED <<session, files, legacy>>
          /\ IF sessionConfirmed
             THEN /\ last'.ok
                  /\ last'.msg = "ok"
                  /\ Len(last'.text) = 4
                  /\ last'.text[1] = "Purchase confirmed! You can now consult your orders history to see the details of your latest purchase."
                  /\ last'.text[2] = " (Profile: "
                  /\ last'.text[3] = currentProfile
                  /\ last'.out = <<>>
             ELSE /\ last'.msg = "prompt"
                  /\ last'.text = <<>>
                  /\ Len(last'.out) = 1
                  /\ last'.out[1].type = "AMAZON_PROFILE_CONFIRMATION_REQUIRED"
                  /\ last'.out[1].currentProfile = currentProfile]_vars

\* perform-purchase answered for work while an operation was in flight.
C25_Witness ==
    /\ last.op = "invoke"
    /\ last.arg = "perform-purchase"
    /\ last.msg = "ok"
    /\ currentProfile = "work"
    /\ last.text[3] = "work"
    /\ BagCardinality(tasks) = 1

\* C26: add-to-cart and get-product-details called with an ASIN that is
\* not 10 characters long answer an error and no result, and start no
\* browser; addToCart itself, called with such an ASIN, throws its
\* invalid-ASIN error and starts no browser.
C26_BadAsinRejected ==
    [][(/\ last'.op \in {"invoke", "addToCart"}
        /\ last'.arg \in {"add-to-cart", "get-product-details"}
        /\ Len(last'.asin) # 10) =>
          /\ tasks' = tasks
          /\ ~last'.ok
          /\ last'.msg \in {"invalid_params", "error"}
          /\ last'.out = <<>>
          /\ last'.op = "addToCart" =>
                /\ last'.msg = "error"
                /\ Includes(last'.text,
                     "Invalid ASIN provided. ASIN should be a 10-character string.")]_vars

\* addToCart turned down an ASIN of 9 characters with nothing in flight.
C26_Witness ==
    /\ last.op = "addToCart"
    /\ Len(last.asin) = 9
    /\ last.msg = "error"
    /\ tasks = EmptyBag

\* C21: once clearCart has found delete controls, nothing that fails in
\* its loop makes it throw: it leaves the loop without an error, after as
\* many iterations as controls it found or with no control left, having
\* counted no more items than iterations, and it returns a success whose
\* message and itemsRemoved carry the count.
C21_DeletionFailureDoesNotAbort ==
    /\ \A t \in InFlight :
          (t.tool = "clear-cart" /\ t.seen > 0 /\ t.pc = "close") =>
              /\ t.err = NoError
              /\ (t.i = t.seen \/ t.buttons = 0)
              /\ t.removed <= t.i
    /\ (/\ last.op = "return"
        /\ last.arg = "clear-cart"
        /\ last.browser = "closed"
        /\ last.page = "content"
        /\ amazon.cart.buttons > 0
        /\ ~Includes(last.text, "browser call rejected")) =>
          /\ last.ok
          /\ last.out[1].success
          /\ last.out[1].itemsRemoved \in 0..amazon.cart.buttons
          /\ last.out[1].message =
                <<"Successfully cleared cart. Removed ",
                  Numeral(last.out[1].itemsRemoved), " items.">>

\* A cart of two items of which one could not be deleted: clear-cart
\* answered a success with one item removed.
C21_Witness ==
    /\ last.op = "return"
    /\ last.arg = "clear-cart"
    /\ last.ok
    /\ amazon.cart.buttons = 2
    /\ last.out[1].itemsRemoved = 1
    /\ last.out[1].message = <<"Successfully cleared cart. Removed ", "1", " items.">>

C23_EmptyPhraseWins ==
    (/\ last.op = "return"
     /\ last.arg = "get-cart-content"
     /\ last.ok
     /\ Includes(ContainerText(amazon.cart), "Your Amazon Cart is empty")) =>
        last.out = << [isEmpty |-> TRUE, items |-> <<>>] >>

\* The cart page had the phrase and two item nodes, one of them with a
\* title and a price.
C23_Witness ==
    /\ last.op = "return"
    /\ last.arg = "get-cart-content"
    /\ last.ok
    /\ Len(amazon.cart.nodes) = 2
    /\ amazon.cart.nodes[1].title = "Widget"
    /\ last.out[1].isEmpty

\* C27: with mock-sourcing enabled, get-cart-content and
\* get-orders-history start no browser, and with it no navigation, login
\* check or snapshot write; they answer the record extracted from the
\* snapshot stored for the operation, or the read error when there is
\* none.
C27_MocksSkipTheBrowser ==
    [][\A tool \in SnapshotTools :
          (last'.op = "invoke" /\ last'.arg = tool /\ useMocks /\ sessionConfirmed) =>
              /\ tasks' = tasks
              /\ tasks = EmptyBag
              /\ UNCHANGED mocks
              /\ LET snap == IF tool = "get-cart-content" THEN mocks.cart
                             ELSE mocks.orders
                 IN  IF snap.present
                     THEN /\ last'.msg = "ok"
                          /\ Len(last'.out) = 1
                          /\ tool = "get-cart-content" =>
                                last'.out = <<extractCartPageData(snap.content)>>
                          /\ tool = "get-orders-history" =>
                                /\ last'.out = <<extractOrders(snap.content)>>
                                /\ Len(last'.out[1]) = Len(snap.content)
                     ELSE /\ last'.msg = "error"
                          /\ last'.out = <<>>]_vars

\* get-orders-history answered the two orders of its stored snapshot while
\* the site has none.
C27_Witness ==
    /\ last.op = "invoke"
    /\ last.arg = "get-orders-history"
    /\ last.msg = "ok"
    /\ useMocks
    /\ amazon.orders = <<>>
    /\ Len(last.out[1]) = 2
    /\ tasks = EmptyBag

\* C28: whether or not capture mode is on, and whether or not the
\* snapshot file can be written, get-cart-content and get-orders-history
\* on a page they have reached, with every browser call resolving, answer
\* the record extracted from that page.
C28_CaptureHasNoBearing ==
    (/\ last.op = "return"
     /\ last.arg \in SnapshotTools
     /\ last.page = "content"
     /\ last.browser = "closed"
     /\ ~Includes(last.text, "browser call rejected")) =>
        /\ last.ok
        /\ last.arg = "get-cart-content" =>
              last.out = <<extractCartPageData(amazon.cart)>>
        /\ last.arg = "get-orders-history" =>
              last.out = <<extractOrders(amazon.orders)>>

\* C31: a switchProfile that fails says which step failed: the message
\* for a malformed name, for a profile that has no file and for a file
\* that does not load are three different messages, each given for its
\* own cause and naming the profile asked for; the message for a missing
\* profile ends with the names of all the profiles listProfiles returns.
C31_FailureNamesItsStep ==
    (last.op = "switchProfile" /\ ~last.ok) =>
        /\ Len(last.text) >= 2
        /\ last.text[2] = last.arg
        /\ last.text[1] = "Invalid profile name " <=> ~isValidProfileName(last.arg)
        /\ last.text[1] = "Profile " <=>
              /\ isValidProfileName(last.arg)
              /\ ~Exists(files[last.arg])
        /\ last.text[1] = "Failed to load profile " <=>
              /\ isValidProfileName(last.arg)
              /\ Exists(files[last.arg])
              /\ files[last.arg].kind # "array"
        /\ last.text[1] = "Profile " =>
              /\ last.text[3] = " not found. Available profiles: "
              /\ SubSeq(last.text, 4, Len(last.text)) = Names(listProfiles(files))
              /\ \A n \in ProfileNames :
                    Exists(files[n]) <=> Includes(SubSeq(last.text, 4, Len(last.text)), n)

\* "work" was asked for and has no file; the message lists "personal",
\* whose file is there though it does not parse.
C31_Witness ==
    /\ last.op = "switchProfile"
    /\ last.arg = "work"
    /\ ~last.ok
    /\ files["personal"] = Corrupt
    /\ last.text = <<"Profile ", "work", " not found. Available profiles: ", "personal">>

\* C36: a load reads the legacy file amazonCookies.json only for the
\* profile "personal" and only while profiles/personal.json does not
\* exist; the start-up copies the legacy file into profiles/personal.json,
\* after which the load of "personal" reads the copy; a switch or a
\* confirmation never reads the legacy file.
C36_LegacyOnlyForPersonal ==
    /\ \A name \in ProfileNames :
          loadProfile(files, legacy, Now, name).from = "legacy" =>
              /\ name = "personal"
              /\ ~Exists(files["personal"])
              /\ Exists(legacy)
    /\ Exists(legacy) =>
          LET st == initializeProfiles([files EXCEPT !["personal"] = Absent],
                                       legacy, TRUE)
          IN  /\ st.fs["personal"] = legacy
              /\ loadProfile(st.fs, legacy, st.s, "personal").from = "profile"
    /\ (/\ last.op \in {"switchProfile", "confirmSession"}
        /\ last.ok
        /\ last.op = "confirmSession" => last.arg \notin {"", last.preProfile}) =>
          /\ Loadable(files[currentProfile])
          /\ currentCookies = normalizeCookies(files[currentProfile].cookies)

\* The copy failed at start-up: "personal" was loaded from the legacy
\* file and profiles/personal.json is still missing.
C36_Witness ==
    /\ last.op = "init"
    /\ Exists(legacy)
    /\ ~Exists(files["personal"])
    /\ loadProfile(files, legacy, Now, "personal").from = "legacy"
    /\ currentCookies = normalizeCookies(legacy.cookies)
    /\ currentCookies # <<>>

\* C37: the cookies in memory are what the most recent successful load
\* read for the active profile.  After start-up they are the normalized
\* content of the file "personal" was loaded from, or empty when that
\* load failed; afterwards the name or the cookies change only in a
\* switch that succeeded, both together, to the name asked for and the
\* normalized content of that profile's file.
C37_CookiesBelongToProfile ==
    /\ (/\ currentProfile = "personal"
        /\ LET ld == loadProfile(files, legacy, Session("personal", <<>>, FALSE),
                                 "personal")
           IN  currentCookies =
                   IF ~ld.ok THEN <<>>
                   ELSE IF ld.from = "legacy" THEN normalizeCookies(legacy.cookies)
                   ELSE normalizeCookies(files["personal"].cookies))
    /\ [][(currentProfile' # currentProfile \/ currentCookies' # currentCookies) =>
              /\ last'.op \in {"switchProfile", "confirmSession"}
              /\ last'.ok
              /\ currentProfile' = last'.arg
              /\ files' = files
              /\ Loadable(files[last'.arg])
              /\ currentCookies' = normalizeCookies(files[last'.arg].cookies)]_vars

\* A switch from "personal" to "work" put the cookies of work.json in
\* memory; personal.json has been overwritten since its load.
C37_Witness ==
    /\ last.op = "switchProfile"
    /\ last.ok
    /\ last.preProfile = "personal"
    /\ currentProfile = "work"
    /\ currentCookies = normalizeCookies(WorkCookies)
    /\ files["personal"] = ArrayOf(NewCookies)

\* C38: a save, accepted or rejected, for the active profile or another,
\* leaves the active profile, the cookies in memory and the confirmed
\* flag as they were; the cookies in memory, which are what a browser
\* session is given, change only in a switch that succeeded.
C38_SaveLeavesSession ==
    [][/\ last'.op = "saveProfile" => UNCHANGED session
       /\ currentCookies' # currentCookies =>
             /\ last'.op \in {"switchProfile", "confirmSession"}
             /\ last'.ok
             /\ last'.arg = currentProfile']_vars

\* New cookies were saved over the file of the active, confirmed
\* profile; the memory still holds the ones loaded before.
C38_Witness ==
    /\ last.op = "saveProfile"
    /\ last.ok
    /\ last.arg = currentProfile
    /\ sessionConfirmed
    /\ files[currentProfile] = ArrayOf(NewCookies)
    /\ currentCookies # <<>>
    /\ currentCookies # normalizeCookies(NewCookies)

\* C39: every name the confirmation prompt offers can be resubmitted:
\* confirmSession with that name succeeds and leaves that profile active
\* and confirmed.
C39_PromptOptionsUsable ==
    (last.op = "invoke" /\ last.msg = "prompt") =>
        \A i \in 1..Len(last.out[1].availableProfiles) :
            LET name == last.out[1].availableProfiles[i]
                r == confirmSession(files, legacy, Now, name)
            IN  /\ r.ret.success
                /\ r.s.profile = name
                /\ r.s.confirmed

\* C34: clearCart's loop is bounded by the number N of delete controls
\* its first query found: it is in the loop only with fewer than N
\* iterations done, every step of the loop either completes an iteration
\* or leaves the loop because the re-query found no control, and a
\* re-query that finds none clicks nothing; with no control at the first
\* query the loop is not entered, nothing is clicked and the answer is a
\* success with zero removed.
C34_LoopBounded ==
    /\ \A t \in InFlight :
          t.tool = "clear-cart" =>
              /\ t.i <= t.seen
              /\ t.pc = "delete" => t.i < t.seen
              /\ t.seen = 0 =>
                    t.pc # "delete" /\ t.i = 0 /\ t.removed = 0 /\ ~t.stale
    /\ (/\ last.op = "return"
        /\ last.arg = "clear-cart"
        /\ last.ok
        /\ amazon.cart.buttons = 0) =>
              last.out = << [success |-> TRUE, itemsRemoved |-> 0,
                             message |-> <<"No items found in cart to remove">>] >>
    /\ [][\A t \in InFlight :
            (t.pc = "delete" /\ CopiesIn(t, tasks') < CopiesIn(t, tasks)) =>
                \E u \in BagToSet(tasks') :
                    /\ CopiesIn(u, tasks') > CopiesIn(u, tasks)
                    /\ u.seen = t.seen
                    /\ \/ u.i = t.i + 1 /\ u.pc = (IF u.i = u.seen THEN "close" ELSE "delete")
                       \/ u.i = t.i /\ u.pc = "close" /\ t.buttons = 0
                    /\ t.buttons = 0 => u.removed = t.removed /\ u.buttons = 0]_vars

\* The loop ran its two iterations on a page that did not update: both
\* clicks failed, both controls are still there, and the loop is over.
C34_Witness ==
    \E t \in InFlight :
        /\ t.tool = "clear-cart"
        /\ t.pc = "close"
        /\ t.seen = 2
        /\ t.i = 2
        /\ t.buttons = 2
        /\ t.removed = 0
        /\ t.err = NoError

\* C35 as stated: clearCart clicks only handles of the re-query of the
\* same iteration, and when its loop is over no delete control remains.
C35_DeletesUntilNoneRemain ==
    \A t \in InFlight :
        t.tool = "clear-cart" =>
            /\ ~t.stale
            /\ (t.pc = "close" /\ t.err = NoError) => t.buttons = 0

\* C35, amended: clearCart clicks only handles of the re-query of the
\* same iteration, never one queried before an item left the page, and
\* it keeps deleting until a re-query finds no delete control or as many
\* iterations have run as the first query found controls.
C35_RequeriesBeforeEachClick ==
    \A t \in InFlight :
        t.tool = "clear-cart" =>
            /\ ~t.stale
            /\ t.removed <= t.i
            /\ t.held <= t.seen - t.buttons
            /\ (t.pc = "close" /\ t.err = NoError) =>
                  t.buttons = 0 \/ t.i = t.seen

\* The second deletion of two was made on handles queried after the
\* first item had left the page.
C35_Witness ==
    \E t \in InFlight :
        /\ t.tool = "clear-cart"
        /\ t.pc = "close"
        /\ t.seen = 2
        /\ t.removed = 2
        /\ t.held = 1
        /\ t.buttons = 0
        /\ ~t.stale

\* C40: the profile an identity-scoped tool names in its result text is
\* the profile whose cookies the invocation put into its browser, whatever
\* switch-profile or confirm-profile calls were handled in between.
C40_ResultNamesInjectedProfile ==
    [][\A t \in InFlight :
          (/\ t.pc = "close"
           /\ CopiesIn(t, tasks') < CopiesIn(t, tasks)
           /\ last'.op = "return"
           /\ last'.ok) =>
              /\ last'.text[1] = "(Profile: "
              /\ Loadable(files[last'.text[2]])
              /\ t.jar = normalizeCookies(files[last'.text[2]].cookies)]_vars

\* C32: addToCart works on its product page in a fixed order: the
\* one-time-purchase option, when there is one, is clicked before the
\* add-to-cart control; the add-to-cart click comes before the attempt
\* to decline the coverage; the confirmation is awaited only after the
\* add-to-cart click has succeeded; when the control is not found or its
\* click fails the operation throws at once, without going to the
\* coverage or the confirmation.
C32_StepsInOrder ==
    \A t \in InFlight :
        (/\ t.tool = "add-to-cart"
         /\ t.pc = "close"
         /\ t.page = "content"
         /\ t.err # Failed) =>
            LET tr == t.trace
                p == amazon.product
                Before(a, b) == \E i, j \in 1..Len(tr) :
                                    i < j /\ tr[i] = a /\ tr[j] = b
            IN  /\ Includes(tr, "one-time purchase") <=> p.oneTime # "absent"
                /\ Includes(tr, "add-to-cart") <=> p.button # "absent"
                /\ (Includes(tr, "one-time purchase") /\ Includes(tr, "add-to-cart")) =>
                      Before("one-time purchase", "add-to-cart")
                /\ Includes(tr, "coverage") => Before("add-to-cart", "coverage")
                /\ Includes(tr, "confirmation") <=> p.button = "present"
                /\ Includes(tr, "confirmation") =>
                      /\ Before("add-to-cart", "confirmation")
                      /\ Before("coverage", "confirmation")
                /\ p.button # "present" =>
                      /\ ~Includes(tr, "coverage")
                      /\ Includes(t.err, "Could not find or click the add to cart button: ")
                /\ \A i, j \in 1..Len(tr) : tr[i] = tr[j] => i = j

\* A subscribe-and-save product without coverage offer went into the
\* cart: option, add-to-cart, coverage attempt, confirmation.
C32_Witness ==
    \E t \in InFlight :
        /\ t.tool = "add-to-cart"
        /\ t.pc = "close"
        /\ t.err = NoError
        /\ amazon.product = Product("present", "present", "absent")
        /\ t.trace = <<"one-time purchase", "add-to-cart", "coverage", "confirmation">>

\* C33: whatever the one-time-purchase option and the coverage control
\* are (absent, present, or failing when clicked), addToCart on a product
\* page it has reached succeeds exactly when the add-to-cart click
\* succeeds and the confirmation text is one of the expected ones.
C33_OptionalStepsNeverFail ==
    (/\ last.op \in {"return", "exit"}
     /\ last.arg = "add-to-cart"
     /\ last.page = "content"
     /\ ~Includes(last.text, "browser call rejected")) =>
        (last.ok <=> /\ amazon.product.button = "present"
                     /\ verifyAdded(amazon.confirmation) = NoError)

====
